---- MODULE Spec2Model ----
(***************************************************************************)
(* A model of the page-geometry subsystem of the lighting-catalog          *)
(* repository: src/pdf_processor.py (rendering, vector rectangle locator,  *)
(* content extension, zone fallback, extract_page_images) and the part of  *)
(* src/ai_extractor.py that extract_page_images reaches (find_dim_boxes,   *)
(* _call_best, _call).                                                     *)
(*                                                                         *)
(* Units.  Vector coordinates (PyMuPDF points, floats in the code) are     *)
(* kept in HALF POINTS, so that a coordinate may have a fractional part    *)
(* of .5 and Python's round() is not the identity.  Pixel coordinates are  *)
(* integers.  The sample page is 60 x 60 pt, 125 x 125 px at 150 dpi; on   *)
(* that page no threshold of the code (8 % and 58 % of the page size)      *)
(* falls on the half-point grid, so the integer comparisons below agree    *)
(* with the code's floating-point comparisons.                             *)
(***************************************************************************)
EXTENDS Integers, Sequences, FiniteSets, TLC

VARIABLES
    _working_model,   \* ai_extractor._working_model["model"]
    open_docs,        \* document handles opened by fitz.open and not closed
    pc,               \* position of the (single-threaded) program
    call,             \* the running operation and its arguments
    http,             \* position inside _call_best / _call
    strat,            \* strategies extract_page_images attempted, with their crops
    reply,            \* what find_dim_boxes read from the service and returned
    result,           \* how the last operation ended
    loc_page,         \* input of _find_drawing_rects (locator specification)
    loc_rects,        \* output of _find_drawing_rects (locator specification)
    pure,             \* a pure function, its argument and its result
    prices            \* the state of a convert_prices call

vars == <<_working_model, open_docs, pc, call, http, strat, reply, result,
          loc_page, loc_rects, pure, prices>>

(***************************************************************************)
(* Generic helpers                                                         *)
(***************************************************************************)
Min(a, b) == IF a <= b THEN a ELSE b

Max(a, b) == IF a >= b THEN a ELSE b

SeqsUpTo(S, n) == UNION {[1..k -> S] : k \in 0..n}

\* s[:n] of Python
Take(s, n) == SubSeq(s, 1, Min(n, Len(s)))

(***************************************************************************)
(* The sample page geometry                                                *)
(***************************************************************************)
\* page.rect.width / page.rect.height of the sample pages, in points
PagePt == [w |-> 60, h |-> 60]

\* extract_page_images renders at dpi=150; PyMuPDF's base resolution is 72
RENDER_DPI == 150

PDF_DPI == 72

PxW == (PagePt.w * RENDER_DPI) \div PDF_DPI

PxH == (PagePt.h * RENDER_DPI) \div PDF_DPI

(***************************************************************************)
(* fitz.Rect, in half points                                               *)
(***************************************************************************)
Rect(a, b, c, d) == [x0 |-> a, y0 |-> b, x1 |-> c, y1 |-> d]

Pt(a, b) == [x |-> a, y |-> b]

\* r.width, r.height (PyMuPDF: max(0, x1 - x0))
RectWidth(r) == Max(0, r.x1 - r.x0)

RectHeight(r) == Max(0, r.y1 - r.y0)

\* r.is_empty (PyMuPDF: x0 >= x1 or y0 >= y1)
is_empty(r) == r.x0 >= r.x1 \/ r.y0 >= r.y1

\* r.is_infinite: PyMuPDF's infinite rectangle spans the whole 32-bit range;
\* here it is the rectangle with the extreme coordinates an integer holds
is_infinite(r) ==
    /\ r.x0 = -2147483647 /\ r.y0 = -2147483647
    /\ r.x1 = 2147483647 /\ r.y1 = 2147483647

\* Python's round() of a non-negative coordinate given in half points:
\* round-half-to-even, result in whole points.
PyRound(h) ==
    LET n == h \div 2
    IN  IF h % 2 = 0 THEN n
        ELSE IF n % 2 = 0 THEN n ELSE n + 1

(***************************************************************************)
(* _rect_from_path_items.  A path's items are tuples as PyMuPDF gives      *)
(* them: <<"re", rect>>, <<"l", p1, p2>>, <<"m", p>>, <<"c", p1..p4>>.     *)
(* The result is <<>> for None and <<rect>> otherwise.                     *)
(***************************************************************************)
RECURSIVE PathPts(_)
PathPts(items) ==
    IF items = <<>> THEN <<>>
    ELSE LET item == Head(items)
             t    == item[1]
             here == IF t = "l" /\ Len(item) >= 3 THEN <<item[2], item[3]>>
                     ELSE IF t = "m" /\ Len(item) >= 2 THEN <<item[2]>>
                     ELSE <<>>
         IN  here \o PathPts(Tail(items))

SetMin(S) == CHOOSE m \in S : \A o \in S : m <= o

SetMax(S) == CHOOSE m \in S : \A o \in S : m >= o

_rect_from_path_items(items) ==
    IF items = <<>> THEN <<>>
    ELSE IF items[1][1] = "re" THEN <<items[1][2]>>
    ELSE IF ~(4 <= Len(items) /\ Len(items) <= 5) THEN <<>>
    ELSE LET pts == PathPts(items)
             xs  == {PyRound(pts[i].x) : i \in 1..Len(pts)}
             ys  == {PyRound(pts[i].y) : i \in 1..Len(pts)}
         IN  IF Len(pts) < 4 THEN <<>>
             ELSE IF Cardinality(xs) # 2 \/ Cardinality(ys) # 2 THEN <<>>
             ELSE <<Rect(2 * SetMin(xs), 2 * SetMin(ys),
                         2 * SetMax(xs), 2 * SetMax(ys))>>

(***************************************************************************)
(* _find_drawing_rects                                                     *)
(***************************************************************************)
\* "Ø" in txt or "ø" in txt; a span's text is its sequence of characters
HasDiameter(txt) == \E i \in 1..Len(txt) : txt[i] \in {"Ø", "ø"}

\* Step 1: the label anchors, in span order.  An anchor is the centre of the
\* span's bbox; it is kept doubled (cx2 = b0 + b2) so that it stays an integer.
RECURSIVE LabelPts(_)
LabelPts(spans) ==
    IF spans = <<>> THEN <<>>
    ELSE LET span == Head(spans)
             b    == span.bbox
         IN  (IF HasDiameter(span.text)
              THEN <<[cx2 |-> b[1] + b[3], cy2 |-> b[2] + b[4]]>>
              ELSE <<>>) \o LabelPts(Tail(spans))

SIZE_PCT == 8

\* the size filter: r.width < pw * 0.08 or r.height < ph * 0.08
TooSmall(r, pw, ph) ==
    \/ RectWidth(r) * 100 < 2 * pw * SIZE_PCT
    \/ RectHeight(r) * 100 < 2 * ph * SIZE_PCT

RIGHT_EDGE_PCT == 58

\* a variant of the position filter that lets the right edge reach 95 %
TooFarRightLoose(r, pw) == r.x1 * 100 > 2 * pw * 95

\* the position filter: r.x1 > pw * 0.58
TooFarRight(r, pw) == r.x1 * 100 > 2 * pw * RIGHT_EDGE_PCT

\* Step 2: rect_pool, in path order
RECURSIVE RectPool(_, _, _)
RectPool(drawings, pw, ph) ==
    IF drawings = <<>> THEN <<>>
    ELSE LET got  == _rect_from_path_items(Head(drawings))
             rest == RectPool(Tail(drawings), pw, ph)
         IN  IF got = <<>> THEN rest
             ELSE IF is_empty(got[1]) \/ is_infinite(got[1]) THEN rest
             ELSE IF TooSmall(got[1], pw, ph) THEN rest
             ELSE IF TooFarRight(got[1], pw) THEN rest
             ELSE <<got[1]>> \o rest

\* r.x0 <= px <= r.x1 and r.y0 <= py <= r.y1
Contains(r, p) ==
    /\ 2 * r.x0 <= p.cx2 /\ p.cx2 <= 2 * r.x1
    /\ 2 * r.y0 <= p.cy2 /\ p.cy2 <= 2 * r.y1

Area(r) == RectWidth(r) * RectHeight(r)

Containing(pool, p) == SelectSeq(pool, LAMBDA r : Contains(r, p))

\* a variant that picks the first rectangle of greatest area
MaxByArea(rs) ==
    LET i == CHOOSE i \in 1..Len(rs) :
                 /\ \A j \in 1..Len(rs) : Area(rs[i]) >= Area(rs[j])
                 /\ \A j \in 1..(i - 1) : Area(rs[j]) < Area(rs[i])
    IN  rs[i]

\* min(containing, key=area): the FIRST rectangle of least area
MinByArea(rs) ==
    LET i == CHOOSE i \in 1..Len(rs) :
                 /\ \A j \in 1..Len(rs) : Area(rs[i]) <= Area(rs[j])
                 /\ \A j \in 1..(i - 1) : Area(rs[j]) > Area(rs[i])
    IN  rs[i]

\* key = (round(best.x0), round(best.y0))
CornerKey(r) == <<PyRound(r.x0), PyRound(r.y0)>>

\* Step 3: the loop over label_pts, with its accumulators found and seen
RECURSIVE Anchor(_, _, _, _)
Anchor(pts, pool, found, seen) ==
    IF pts = <<>> THEN found
    ELSE LET containing == Containing(pool, Head(pts))
         IN  IF containing = <<>> THEN Anchor(Tail(pts), pool, found, seen)
             ELSE LET best == MinByArea(containing)
                      key  == CornerKey(best)
                  IN  IF key \in seen
                      THEN Anchor(Tail(pts), pool, found, seen)
                      ELSE Anchor(Tail(pts), pool, Append(found, best),
                                  seen \cup {key})

\* list.sort(key=lambda r: r.y0): a stable sort
RECURSIVE InsertByY0(_, _)
InsertByY0(sorted, r) ==
    IF sorted = <<>> THEN <<r>>
    ELSE IF Head(sorted).y0 <= r.y0
         THEN <<Head(sorted)>> \o InsertByY0(Tail(sorted), r)
         ELSE <<r>> \o sorted

\* a variant that leaves the list in the order it has
KeepOrder(rs) == rs

RECURSIVE SortByY0(_)
SortByY0(rs) ==
    IF rs = <<>> THEN <<>>
    ELSE InsertByY0(SortByY0(SubSeq(rs, 1, Len(rs) - 1)), rs[Len(rs)])

MAX_RECTS == 2

_find_drawing_rects(page) ==
    LET label_pts == LabelPts(page.spans)
        rect_pool == RectPool(page.drawings, page.w, page.h)
        found     == Anchor(label_pts, rect_pool, <<>>, {})
    IN  IF rect_pool = <<>> THEN <<>>
        ELSE IF label_pts # <<>> /\ found # <<>>
             THEN Take(SortByY0(found), MAX_RECTS)
             ELSE Take(SortByY0(rect_pool), MAX_RECTS)

(***************************************************************************)
(* Sample vector content (half points).  The boxes follow the catalogue    *)
(* layout the code is written for: an outer section border over 90 % of    *)
(* the page width, and drawing boxes over 40 % of it in the left half.     *)
(***************************************************************************)
ReItem(r) == <<"re", r>>

\* a rectangle drawn as four line segments, closed
LinePath(r) ==
    << <<"l", Pt(r.x0, r.y0), Pt(r.x1, r.y0)>>,
       <<"l", Pt(r.x1, r.y0), Pt(r.x1, r.y1)>>,
       <<"l", Pt(r.x1, r.y1), Pt(r.x0, r.y1)>>,
       <<"l", Pt(r.x0, r.y1), Pt(r.x0, r.y0)>> >>

BoxOuter == Rect(6, 12, 114, 108)    \* 3..57 pt wide: 90 % of the width

BoxA == Rect(12, 24, 60, 48)         \* 40 % wide, 20 %..40 % of the height

BoxB == Rect(12, 66, 60, 90)         \* 40 % wide, 55 %..75 % of the height

BoxC == Rect(12, 92, 60, 116)        \* 40 % wide, a third box further down

BoxNested == Rect(20, 28, 40, 44)    \* inside BoxA

BoxHalf == Rect(12, 25, 56, 47)      \* inside BoxA, top edge at 12.5 pt

BoxFlat == Rect(12, 100, 60, 106)    \* 40 % wide, 3 pt (5 %) tall

BoxTiny == Rect(8, 20, 18, 30)       \* 5 x 5 pt: passes the 8 % size filter

SamplePaths ==
    << <<ReItem(BoxOuter)>>,
       <<ReItem(BoxA)>>,
       LinePath(BoxB),
       <<ReItem(BoxC)>>,
       <<ReItem(BoxNested)>>,
       <<ReItem(BoxHalf)>>,
       <<ReItem(BoxFlat)>>,
       \* a closed four-segment path that is no rectangle (three distinct x)
       << <<"l", Pt(12, 24), Pt(60, 24)>>, <<"l", Pt(60, 24), Pt(30, 48)>>,
          <<"l", Pt(30, 48), Pt(12, 48)>>, <<"l", Pt(12, 48), Pt(12, 24)>> >> >>

Span(txt, b) == [text |-> txt, bbox |-> b]

SpanA == Span(<<"Ø", "6", "0">>, <<24, 34, 36, 38>>)    \* centre in A, Nested, Half

SpanA2 == Span(<<"Ø", "1", "2">>, <<56, 34, 60, 38>>)   \* centre in A only

SpanB == Span(<<"ø", "3", "5">>, <<24, 76, 36, 80>>)    \* centre in B

SpanOut == Span(<<"Ø", "9">>, <<80, 100, 90, 104>>)     \* centre in the outer border only

SpanVolt == Span(<<"V", "o", "l", "t">>, <<70, 30, 90, 34>>)

SampleSpanLists ==
    { <<>>, <<SpanVolt>>, <<SpanOut>>, <<SpanA>>, <<SpanA, SpanB>>,
      <<SpanB, SpanA>>, <<SpanA, SpanA2>>, <<SpanA2, SpanA>>,
      <<SpanVolt, SpanB>>, <<SpanA2, SpanB, SpanA>> }

\* the longest list of drawing paths on a page of the locator specification
MaxPaths == 3

VectorPage(drawings, spans) ==
    [w |-> PagePt.w, h |-> PagePt.h, drawings |-> drawings, spans |-> spans]

LocPages ==
    { VectorPage([i \in 1..Len(ix) |-> SamplePaths[ix[i]]], spans) :
        ix \in SeqsUpTo(1..Len(SamplePaths), MaxPaths),
        spans \in SampleSpanLists }

(***************************************************************************)
(* Literals of src/pdf_processor.py                                        *)
(***************************************************************************)
STRIP_H == 8            \* _find_split_y: strip height

SPLIT_STEP == 5         \* _find_split_y: scan step

NEAR_WHITE == 235       \* extract_page_images: separator brightness

DIM_THRESHOLD == 248    \* _trim_whitespace_dim: default threshold

DIM_TRIM_PAD == 12      \* _trim_whitespace_dim: padding

MIN_TRIMMED == 20       \* _trim_whitespace_dim: least size kept

DARK_BELOW == 200       \* _extend_crop_to_content: dark pixel

GAP_ROWS == 25          \* _extend_crop_to_content: bridged gap

EXTEND_PAD == 10        \* _extend_crop_to_content: final padding

AI_PAD == 6             \* extract_page_images: padding of an AI box

AI_MIN_SIDE == 30       \* extract_page_images: least side of an AI crop

VEC_MIN_SIDE == 40      \* extract_page_images: least side of a vector crop

ZONE_PCT == 35          \* extract_page_images: width of the zone fallback

(***************************************************************************)
(* Raster images.  A page bitmap is white paper with filled ink            *)
(* rectangles painted over it in order.  A PIL image is a window           *)
(* (x0, y0, x1, y1) onto the bitmap of the page it was rendered from;      *)
(* Image.crop composes windows.  Every crop the code takes lies inside     *)
(* the image it is taken from, so no padding pixel is ever read.           *)
(***************************************************************************)
PageKinds == {"boxes", "blank", "photo", "twozone", "tiny", "speck", "corrupt"}

Ink(a, b, c, d, rgb) == [x0 |-> a, y0 |-> b, x1 |-> c, y1 |-> d, rgb |-> rgb]

DARK == <<40, 40, 40>>

GREY == <<90, 90, 90>>

BROWN == <<120, 90, 60>>

WHITE == <<255, 255, 255>>

MIDGRAY == <<128, 128, 128>>

OFFWHITE == <<240, 240, 240>>

\* the one-pixel frame of a box given in pixels
Frame(a, b, c, d) ==
    << Ink(a, b, c + 1, b + 1, DARK), Ink(a, d, c + 1, d + 1, DARK),
       Ink(a, b, a + 1, d + 1, DARK), Ink(c, b, c + 1, d + 1, DARK) >>

Inks(k) ==
    CASE k = "boxes" ->
            Frame(6, 12, 118, 112)                     \* outer section border
            \o Frame(12, 25, 62, 50)                   \* BoxA
            \o << Ink(30, 30, 45, 45, DARK),           \* lamp body in BoxA
                  Ink(37, 16, 38, 25, DARK) >>         \* stem above BoxA
            \o Frame(12, 68, 62, 93)                   \* BoxB
            \o << Ink(30, 73, 45, 88, DARK),           \* lamp body in BoxB
                  Ink(75, 30, 110, 33, GREY),          \* text columns
                  Ink(75, 36, 105, 39, GREY) >>
      [] k = "photo"   -> << Ink(10, 40, 36, 100, BROWN) >>
      [] k = "twozone" -> << Ink(8, 10, 36, 45, DARK), Ink(8, 80, 36, 115, DARK) >>
      [] k = "tiny"    -> << Ink(8, 20, 19, 32, DARK) >>
      [] k = "speck"   -> << Ink(0, 0, 3, 3, DARK) >>
      [] k = "bands"   -> << Ink(0, 0, PxW, PxH, MIDGRAY),     \* grey page with
                             Ink(0, 16, PxW, 22, OFFWHITE),    \* a 6 px band,
                             Ink(0, 44, PxW, 56, OFFWHITE),    \* a 12 px band,
                             Ink(0, 84, PxW, 114, OFFWHITE) >> \* a 30 px band
      [] k = "gutter"  -> << Ink(0, 0, PxW, PxH, MIDGRAY),     \* grey page with
                             Ink(0, 40, PxW, 85, OFFWHITE) >>  \* a 45 px band
      [] k = "gaps"    -> << Ink(0, 0, PxW, PxH, MIDGRAY),     \* grey page with
                             Ink(0, 10, PxW, 35, OFFWHITE),    \* a 25 px band,
                             Ink(0, 50, PxW, 76, OFFWHITE) >>  \* a 26 px band
      [] OTHER         -> << >>

\* the inks of a list that cover pixel (x, y), by position in the list
Covering(inks, x, y) ==
    {i \in 1..Len(inks) : /\ inks[i].x0 <= x /\ x < inks[i].x1
                          /\ inks[i].y0 <= y /\ y < inks[i].y1}

\* the last ink painted shows
Topmost(inks, cover) == IF cover = {} THEN WHITE ELSE inks[SetMax(cover)].rgb

PixelAt(k, x, y) == Topmost(Inks(k), Covering(Inks(k), x, y))

\* page kinds that no sample document holds: their bitmaps are inputs of the
\* zone specification
BandKinds == {"bands", "gutter"}

\* a page kind for the upward scan of _extend_crop_to_content
GapKinds == {"gaps"}

Bitmap ==
    [k \in PageKinds \cup BandKinds \cup GapKinds |->
        [y \in 0..(PxH - 1) |-> [x \in 0..(PxW - 1) |-> PixelAt(k, x, y)]]]

Image(k, a, b, c, d) == [k |-> k, x0 |-> a, y0 |-> b, x1 |-> c, y1 |-> d]

\* img.width, img.height
ImgW(img) == img.x1 - img.x0

ImgH(img) == img.y1 - img.y0

\* img.crop((l, u, r, b))
Crop(img, l, u, r, b) ==
    Image(img.k, img.x0 + l, img.y0 + u, img.x0 + r, img.y0 + b)

\* np.array(img)[j, i, :]
Px(img, i, j) == Bitmap[img.k][img.y0 + j][img.x0 + i]

\* (pixel < t).any(): some channel below t
AnyBelow(rgb, t) == rgb[1] < t \/ rgb[2] < t \/ rgb[3] < t

\* f(a) + ... + f(b), summed by halves
RECURSIVE SumOver(_, _, _)
SumOver(f(_), a, b) ==
    IF a > b THEN 0
    ELSE IF a = b THEN f(a)
    ELSE LET m == (a + b) \div 2
         IN  SumOver(f, a, m) + SumOver(f, m + 1, b)

(***************************************************************************)
(* _find_split_y                                                           *)
(***************************************************************************)
\* sum(r + g + b for r, g, b in pxls) of the strip full.crop((0, y, w, y + 8))
StripSum(full, y) ==
    SumOver(LAMBDA j :
                SumOver(LAMBDA i : LET p == Px(full, i, j)
                                   IN  p[1] + p[2] + p[3],
                        0, ImgW(full) - 1),
            y, y + STRIP_H - 1)

\* The loop of _find_split_y.  Every strip holds len(pxls) = w * 8 pixels, so
\* a brightness is kept as its numerator num over the common denominator
\* w * 8 * 3 (StripDen); best_brightness starts at 0.0.
StripDen(full) == ImgW(full) * STRIP_H * 3

RECURSIVE SplitScan(_, _, _, _)
SplitScan(full, y, scan_end, best) ==
    IF y >= scan_end THEN best
    ELSE LET s == StripSum(full, y)
         IN  IF s > best.num
             THEN SplitScan(full, y + SPLIT_STEP, scan_end,
                            [y |-> y + 4, num |-> s])
             ELSE SplitScan(full, y + SPLIT_STEP, scan_end, best)

\* a variant of _find_split_y that scans from 10 % to 90 % of the height
_find_split_yWide(full) ==
    LET h          == ImgH(full)
        scan_start == (h * 10) \div 100
        scan_end   == (h * 90) \div 100
    IN  SplitScan(full, scan_start, scan_end, [y |-> h \div 2, num |-> 0])

\* int(h * 0.70) in double arithmetic.  For these heights (all there are
\* below 400) the product h * 0.7 is the double just under the whole number
\* 7 * h / 10, and int() gives one less than the exact quotient; int(h * 0.30)
\* is the exact quotient for every height below 400.
SHORT_PRODUCTS == {90, 170, 180, 330, 340, 350, 360}

scan_end(h) ==
    IF h \in SHORT_PRODUCTS THEN (h * 70) \div 100 - 1 ELSE (h * 70) \div 100

_find_split_y(full) ==
    LET h          == ImgH(full)
        scan_start == (h * 30) \div 100
    IN  SplitScan(full, scan_start, scan_end(h), [y |-> h \div 2, num |-> 0])

(***************************************************************************)
(* _trim_whitespace_dim: <<>> is None, <<img>> a cropped image             *)
(***************************************************************************)
\* rows = mask.any(axis=1), cols = mask.any(axis=0), as sets of indices
MaskRows(img, t) ==
    {j \in 0..(ImgH(img) - 1) :
        \E i \in 0..(ImgW(img) - 1) : AnyBelow(Px(img, i, j), t)}

MaskCols(img, t) ==
    {i \in 0..(ImgW(img) - 1) :
        \E j \in 0..(ImgH(img) - 1) : AnyBelow(Px(img, i, j), t)}

\* [crop] if crop.width > side and crop.height > side, else nothing
KeepIfLarger(crop, side) ==
    IF ImgW(crop) > side /\ ImgH(crop) > side THEN <<crop>> ELSE <<>>

\* a variant that hands back the untrimmed image where the mask is empty
TrimToMaskOrWhole(img, rows, cols) ==
    IF rows = {} THEN <<img>>
    ELSE KeepIfLarger(Crop(img,
                           Max(0, SetMin(cols) - DIM_TRIM_PAD),
                           Max(0, SetMin(rows) - DIM_TRIM_PAD),
                           Min(ImgW(img), SetMax(cols) + 1 + DIM_TRIM_PAD),
                           Min(ImgH(img), SetMax(rows) + 1 + DIM_TRIM_PAD)),
                      MIN_TRIMMED)

\* the body of _trim_whitespace_dim once rows and cols are known
TrimToMask(img, rows, cols) ==
    IF rows = {} THEN <<>>
    ELSE KeepIfLarger(Crop(img,
                           Max(0, SetMin(cols) - DIM_TRIM_PAD),
                           Max(0, SetMin(rows) - DIM_TRIM_PAD),
                           Min(ImgW(img), SetMax(cols) + 1 + DIM_TRIM_PAD),
                           Min(ImgH(img), SetMax(rows) + 1 + DIM_TRIM_PAD)),
                      MIN_TRIMMED)

_trim_whitespace_dim(img, threshold) ==
    TrimToMask(img, MaskRows(img, threshold), MaskCols(img, threshold))

(***************************************************************************)
(* _trim_whitespace, the illustration variant: <<>> is None, <<img>> a     *)
(* cropped image.  A row's darkness fraction is kept as its count of dark  *)
(* pixels: every row of the trimmed image has the same width, so window    *)
(* scores compare as the sums of the counts do.                            *)
(***************************************************************************)
ILLUS_THRESHOLD == 245

ILLUS_PAD == 6

ZONE_MIN_H == 40

DARK_CONTENT == 180

WIN_MIN == 20

WIN_PCT == 55

WIN_STEP == 3

ZONE_SKIP_PCT == 8

ZONE_PAD == 8

\* (arr2 < 180).any(axis=2) summed over row j
DarkCount(img, j) ==
    Cardinality({i \in 0..(ImgW(img) - 1) : AnyBelow(Px(img, i, j), DARK_CONTENT)})

\* dark_row[y: y + win].sum()
WindowScore(img, y, win) == SumOver(LAMBDA j : DarkCount(img, j), y, y + win - 1)

\* the sliding-window loop: best_start of the first window of the highest
\* score; best_score starts at -1.0
WindowBetter(y, score, best) ==
    IF score > best.score THEN [start |-> y, score |-> score] ELSE best

RECURSIVE WindowScan(_, _, _, _)
WindowScan(img, y, win, best) ==
    IF y > ImgH(img) - win THEN best.start
    ELSE WindowScan(img, y + WIN_STEP, win,
                    WindowBetter(y, WindowScore(img, y, win), best))

\* the zone crop, applied only if it removes more than 8 % at the top or at
\* the bottom
ZoneCrop(trimmed, h2, best_start, best_end) ==
    IF best_start > (h2 * ZONE_SKIP_PCT) \div 100
       \/ h2 - best_end > (h2 * ZONE_SKIP_PCT) \div 100
    THEN Crop(trimmed, 0, Max(0, best_start - ZONE_PAD),
              ImgW(trimmed), Min(h2, best_end + ZONE_PAD))
    ELSE trimmed

ZoneFrom(trimmed, h2, win, best_start) ==
    ZoneCrop(trimmed, h2, best_start, Min(h2, best_start + win))

DenseZone(trimmed) ==
    IF ImgH(trimmed) < ZONE_MIN_H THEN trimmed
    ELSE ZoneFrom(trimmed, ImgH(trimmed),
                  Max(WIN_MIN, (ImgH(trimmed) * WIN_PCT) \div 100),
                  WindowScan(trimmed, 0,
                             Max(WIN_MIN, (ImgH(trimmed) * WIN_PCT) \div 100),
                             [start |-> 0, score |-> -1]))

\* the body of _trim_whitespace once rows and cols are known
TrimToInk(img, rows, cols) ==
    IF rows = {} THEN <<>>
    ELSE << DenseZone(Crop(img,
                           Max(0, SetMin(cols) - ILLUS_PAD),
                           Max(0, SetMin(rows) - ILLUS_PAD),
                           Min(ImgW(img), SetMax(cols) + 1 + ILLUS_PAD),
                           Min(ImgH(img), SetMax(rows) + 1 + ILLUS_PAD))) >>

_trim_whitespace(img, threshold) ==
    TrimToInk(img, MaskRows(img, threshold), MaskCols(img, threshold))

(***************************************************************************)
(* _extend_crop_to_content                                                 *)
(***************************************************************************)
\* dark_fraction > 0.005 for row scan_y over the columns scan_x0 .. scan_x1 - 1
RowHasContent(full, scan_y, scan_x0, scan_x1) ==
    LET dark == Cardinality({i \in scan_x0..(scan_x1 - 1) :
                                AnyBelow(Px(full, i, scan_y), DARK_BELOW)})
    IN  dark * 1000 > 5 * (scan_x1 - scan_x0)

\* a variant of ScanUp that scans up to row 0, whatever scan_top is
RECURSIVE ScanUpNoLimit(_, _, _, _, _, _)
ScanUpNoLimit(full, scan_y, new_y0, scan_top, scan_x0, scan_x1) ==
    IF scan_y < 0 THEN new_y0
    ELSE IF \E ahead \in 0..(Min(GAP_ROWS + 1, scan_y + 1) - 1) :
                RowHasContent(full, scan_y - ahead, scan_x0, scan_x1)
         THEN ScanUpNoLimit(full, scan_y - 1,
                            IF RowHasContent(full, scan_y, scan_x0, scan_x1)
                            THEN scan_y ELSE new_y0,
                            scan_top, scan_x0, scan_x1)
         ELSE new_y0

\* a variant of ScanUp that bridges gaps of up to 30 blank rows
RECURSIVE ScanUpWideGap(_, _, _, _, _, _)
ScanUpWideGap(full, scan_y, new_y0, scan_top, scan_x0, scan_x1) ==
    IF scan_y < scan_top THEN new_y0
    ELSE IF \E ahead \in 0..(Min(31, scan_y - scan_top + 1) - 1) :
                RowHasContent(full, scan_y - ahead, scan_x0, scan_x1)
         THEN ScanUpWideGap(full, scan_y - 1,
                            IF RowHasContent(full, scan_y, scan_x0, scan_x1)
                            THEN scan_y ELSE new_y0,
                            scan_top, scan_x0, scan_x1)
         ELSE new_y0

RECURSIVE ScanUp(_, _, _, _, _, _)
ScanUp(full, scan_y, new_y0, scan_top, scan_x0, scan_x1) ==
    IF scan_y < scan_top THEN new_y0
    ELSE IF \E ahead \in 0..(Min(GAP_ROWS + 1, scan_y - scan_top + 1) - 1) :
                RowHasContent(full, scan_y - ahead, scan_x0, scan_x1)
         \* the row has content, or one of the next 25 rows up has (found_more)
         THEN ScanUp(full, scan_y - 1,
                     IF RowHasContent(full, scan_y, scan_x0, scan_x1)
                     THEN scan_y ELSE new_y0,
                     scan_top, scan_x0, scan_x1)
         ELSE new_y0

\* new_y0 at the end of the scan, before the padding
new_y0(full, x0, y0, x1, y1, px_w) ==
    ScanUp(full, y0 - 1, y0,
           Max(0, y0 - ((y1 - y0) * 8) \div 10),
           Max(0, x0 - (x1 - x0) \div 10),
           Min(px_w, x1 + (x1 - x0) \div 10))

\* a variant of _extend_crop_to_content that pads without clamping
_extend_crop_unclamped(full, x0, y0, x1, y1, px_w, px_h) ==
    [x0 |-> x0 - EXTEND_PAD,
     y0 |-> ScanUp(full, y0 - 1, y0,
                   Max(0, y0 - ((y1 - y0) * 8) \div 10),
                   Max(0, x0 - (x1 - x0) \div 10),
                   Min(px_w, x1 + (x1 - x0) \div 10)) - EXTEND_PAD,
     x1 |-> x1 + EXTEND_PAD,
     y1 |-> y1 + EXTEND_PAD]

\* margin_x = int((x1 - x0) * 0.1), max_extend = int((y1 - y0) * 0.8)
_extend_crop_to_content(full, x0, y0, x1, y1, px_w, px_h) ==
    [x0 |-> Max(0, x0 - EXTEND_PAD),
     y0 |-> Max(0, ScanUp(full, y0 - 1, y0,
                          Max(0, y0 - ((y1 - y0) * 8) \div 10),
                          Max(0, x0 - (x1 - x0) \div 10),
                          Min(px_w, x1 + (x1 - x0) \div 10)) - EXTEND_PAD),
     x1 |-> Min(px_w, x1 + EXTEND_PAD),
     y1 |-> Min(px_h, y1 + EXTEND_PAD)]

(***************************************************************************)
(* Documents.  pdf_bytes is the sequence of its pages; a page is named by  *)
(* its kind, which fixes its vector content and its bitmap.  The page      *)
(* "corrupt" is one whose rendering (get_pixmap) raises.                   *)
(***************************************************************************)
PageDrawings(k) ==
    CASE k = "boxes" -> << <<ReItem(BoxOuter)>>, LinePath(BoxB), <<ReItem(BoxA)>> >>
      [] k = "tiny"  -> << <<ReItem(BoxTiny)>> >>
      [] OTHER       -> << >>

PageSpans(k) ==
    CASE k = "boxes" -> <<SpanVolt, SpanB, SpanA>>
      [] OTHER       -> << >>

PageOf(k) == VectorPage(PageDrawings(k), PageSpans(k))

Renders(k) == k # "corrupt"

Docs == { <<"boxes", "blank">>, <<"photo", "tiny", "twozone">>, <<"speck", "corrupt">> }

PageNums == -1..3

\* doc[page_num] of PyMuPDF: IndexError from len(doc) on, and a negative
\* number counts from the end (pno += page_count until it is >= 0).
\* The result is 0 when the index is refused, else the 1-based position.
DocIndex(doc, page_num) ==
    IF page_num >= Len(doc) THEN 0 ELSE (page_num % Len(doc)) + 1

\* what a rendering function did: kind is "return" or "raise", page the
\* 1-based position of the page rendered, closed whether doc.close() ran
Rendered(kind, page, closed) == [kind |-> kind, page |-> page, closed |-> closed]

render_single_page(doc, page_num) ==
    LET clamped == Min(page_num, Len(doc) - 1)
        at      == DocIndex(doc, clamped)
    IN  IF at = 0 THEN Rendered("raise", 0, FALSE)
        ELSE IF ~Renders(doc[at]) THEN Rendered("raise", 0, FALSE)
        ELSE Rendered("return", at, TRUE)

_render_page_full(doc, page_num) ==
    LET at == DocIndex(doc, page_num)
    IN  IF at = 0 THEN Rendered("raise", 0, FALSE)
        ELSE IF ~Renders(doc[at]) THEN Rendered("raise", 0, FALSE)
        ELSE Rendered("return", at, TRUE)

\* the image _render_page_full returns for a page
FullImage(k) == Image(k, 0, 0, PxW, PxH)

(***************************************************************************)
(* The AI bounding-box service (src/ai_extractor.py)                       *)
(***************************************************************************)
CANDIDATES == <<"moonshot-v1-8k-vision-preview", "moonshot-v1-32k-vision-preview">>

NoModel == "None"

MAX_ATTEMPTS == 4

\* A coordinate of a box as json.loads gives it: a number, a numeric or
\* other string, null, an integer too large for a float, or no entry.
Num(v) == [t |-> "num", v |-> v]

Coord(t) == [t |-> t, v |-> 0]

Box(a, b, c, d) == [x0 |-> a, y0 |-> b, x1 |-> c, y1 |-> d]

BoxOkA == Box(Num(10), Num(20), Num(50), Num(40))

BoxOkB == Box(Num(10), Num(55), Num(50), Num(75))

BoxThin == Box(Num(10), Num(10), Num(12), Num(12))

BoxInverted == Box(Num(50), Num(20), Num(10), Num(40))

BoxOutOfRange == Box(Num(10), Num(20), Num(120), Num(40))

BoxMissing == Box(Num(10), Num(20), Coord("missing"), Num(40))

BoxText == Box(Num(10), Coord("str"), Num(50), Num(40))

BoxHuge == Box(Num(10), Num(20), Coord("huge"), Num(40))

\* The reply text.  A string is kept as the list _parse_json reads from it
\* (the empty list for a text that holds no JSON list).
Text(kind, list) == [kind |-> kind, list |-> list]

EmptyText == Text("empty", <<>>)

Texts ==
    { Text("null", <<>>), EmptyText,
      Text("str", <<>>),
      Text("str", <<BoxOkA, BoxOkB>>),
      Text("str", <<BoxThin>>),
      Text("str", <<BoxInverted, BoxMissing, BoxOkA, BoxText, BoxOutOfRange>>),
      Text("str", <<BoxOkA, BoxHuge>>) }

\* What requests.post meets: a status with a body, or an exception
\* (connection error, the 90 s timeout), whose str() may be empty.  A 200
\* body is either well formed, carrying the text (the chat-completion
\* content: a string or null), or one on which resp.json() or the lookups
\* raise.
Replies ==
    { [status |-> "429", text |-> EmptyText],
      [status |-> "500", text |-> EmptyText],
      [status |-> "exception", text |-> EmptyText],
      [status |-> "exception-nomsg", text |-> EmptyText],
      [status |-> "200-malformed", text |-> EmptyText] }
    \cup { [status |-> "200", text |-> t] : t \in Texts }

\* One pass of the loop of _call.  done = FALSE: the loop goes round again.
Called(done, text, err) == [done |-> done, text |-> text, err |-> err]

\* a variant of _call that asks again after every reply that is not a 200
_callRetryAll(attempt, r) ==
    CASE r.status = "200"           -> Called(TRUE, r.text, "")
      [] r.status = "200-malformed" -> Called(TRUE, EmptyText, "exception")
      [] r.status = "exception"     -> Called(TRUE, EmptyText, "exception")
      [] r.status = "exception-nomsg" -> Called(TRUE, EmptyText, "")
      [] OTHER                      ->
            IF attempt + 1 < MAX_ATTEMPTS
            THEN Called(FALSE, EmptyText, "")
            ELSE Called(TRUE, EmptyText, "Rate limited after retries")

_call(attempt, r) ==
    CASE r.status = "200"           -> Called(TRUE, r.text, "")
      [] r.status = "200-malformed" -> Called(TRUE, EmptyText, "exception")
      [] r.status = "exception"     -> Called(TRUE, EmptyText, "exception")
      [] r.status = "exception-nomsg" -> Called(TRUE, EmptyText, "")
      [] r.status = "429"           ->
            IF attempt + 1 < MAX_ATTEMPTS
            THEN Called(FALSE, EmptyText, "")
            ELSE Called(TRUE, EmptyText, "Rate limited after retries")
      [] OTHER                      -> Called(TRUE, EmptyText, "HTTP")

\* _call_best after a _call has returned c.  phase is "cached" (the call
\* with _working_model) or "cand" (the loop over CANDIDATES, at index cand).
\* next = "return": _call_best returns (text, err), having set
\* _working_model to model; otherwise the phase and candidate to call next.
Best(next, cand, text, err, model) ==
    [next |-> next, cand |-> cand, text |-> text, err |-> err, model |-> model]

\* a variant of _call_best that also caches the last candidate when every
\* model has failed
_call_bestCacheLast(phase, cand, c, working) ==
    IF c.err = ""
    THEN Best("return", cand, c.text, "",
              IF phase = "cand" THEN CANDIDATES[cand] ELSE working)
    ELSE IF phase = "cached" THEN Best("cand", 1, EmptyText, "", working)
    ELSE IF cand < Len(CANDIDATES) THEN Best("cand", cand + 1, EmptyText, "", working)
    ELSE Best("return", cand, EmptyText,
              "All models failed. Last error: " \o c.err, CANDIDATES[cand])

_call_best(phase, cand, c, working) ==
    IF c.err = ""
    THEN Best("return", cand, c.text, "",
              IF phase = "cand" THEN CANDIDATES[cand] ELSE working)
    ELSE IF phase = "cached" THEN Best("cand", 1, EmptyText, "", working)
    ELSE IF cand < Len(CANDIDATES) THEN Best("cand", cand + 1, EmptyText, "", working)
    ELSE Best("return", cand, EmptyText,
              "All models failed. Last error: " \o c.err, working)

\* float(b[key]): the value, or the exception it raises
FloatOf(c) ==
    CASE c.t = "num"     -> [exc |-> "", v |-> c.v]
      [] c.t = "numstr"  -> [exc |-> "", v |-> c.v]
      [] c.t = "missing" -> [exc |-> "KeyError", v |-> 0]
      [] c.t = "null"    -> [exc |-> "TypeError", v |-> 0]
      [] c.t = "str"     -> [exc |-> "ValueError", v |-> 0]
      [] c.t = "huge"    -> [exc |-> "OverflowError", v |-> 0]

\* the try block of find_dim_boxes for one entry: the four conversions in
\* order, then the range test
ValidateBox(b) ==
    LET fs  == <<FloatOf(b.x0), FloatOf(b.y0), FloatOf(b.x1), FloatOf(b.y1)>>
        bad == {i \in 1..4 : fs[i].exc # ""}
    IN  IF bad # {} THEN [exc |-> fs[SetMin(bad)].exc, keep |-> FALSE, box |-> b]
        ELSE LET x0 == fs[1].v
                 y0 == fs[2].v
                 x1 == fs[3].v
                 y1 == fs[4].v
             IN  [exc  |-> "",
                  keep |-> (0 <= x0 /\ x0 < x1 /\ x1 <= 100
                            /\ 0 <= y0 /\ y0 < y1 /\ y1 <= 100),
                  box  |-> [x0 |-> x0, y0 |-> y0, x1 |-> x1, y1 |-> y1]]

CaughtInLoop == {"KeyError", "TypeError", "ValueError"}

\* the validation loop: [raised, valid]
RECURSIVE ValidateAll(_, _)
ValidateAll(boxes, valid) ==
    IF boxes = <<>> THEN [raised |-> FALSE, valid |-> valid]
    ELSE LET v == ValidateBox(Head(boxes))
         IN  IF v.exc = "" THEN
                 ValidateAll(Tail(boxes), IF v.keep THEN Append(valid, v.box) ELSE valid)
             ELSE IF v.exc \in CaughtInLoop THEN ValidateAll(Tail(boxes), valid)
             ELSE [raised |-> TRUE, valid |-> <<>>]

\* a variant of bool(text) that takes every reply for a non-empty string
TruthyAlways(text) == text.kind \in {"null", "empty", "str"}

\* bool(text): a non-empty string
Truthy(text) == text.kind = "str"

\* _parse_json: content.strip() needs a string; the list read from it
_parse_json(content) ==
    IF content.kind = "null" THEN [exc |-> "AttributeError", list |-> <<>>]
    ELSE [exc |-> "", list |-> content.list]

\* the part of find_dim_boxes after boxes = _parse_json(text)
Validated(boxes) ==
    IF boxes.exc # "" THEN [raised |-> TRUE, valid |-> <<>>]
    ELSE ValidateAll(boxes.list, <<>>)

\* find_dim_boxes after _call_best returned (text, err)
find_dim_boxes(text, err) ==
    IF err # "" \/ ~Truthy(text) THEN [raised |-> FALSE, valid |-> <<>>]
    ELSE Validated(_parse_json(text))

(***************************************************************************)
(* The three strategies of extract_page_images                             *)
(***************************************************************************)
\* int(b / 100 * px) of a percentage
PctToPx(v, px) == (v * px) \div 100

\* the padded crop of one box, px_w, px_h = full.size
AiCrop(full, b, px_w, px_h) ==
    Crop(full, Max(0, PctToPx(b.x0, px_w) - AI_PAD),
               Max(0, PctToPx(b.y0, px_h) - AI_PAD),
               Min(px_w, PctToPx(b.x1, px_w) + AI_PAD),
               Min(px_h, PctToPx(b.y1, px_h) + AI_PAD))

\* Path 1: the crops of the validated boxes
RECURSIVE AiCrops(_, _)
AiCrops(full, boxes) ==
    IF boxes = <<>> THEN <<>>
    ELSE KeepIfLarger(AiCrop(full, Head(boxes), ImgW(full), ImgH(full)), AI_MIN_SIDE)
             \o AiCrops(full, Tail(boxes))

\* int(r.x0 * sx) with sx = px_w / page_w, for a coordinate in half points
PtToPx(h, px, page) == (h * px) \div (2 * page)

\* full.crop((x0, y0, x1, y1)) of the box _extend_crop_to_content returned
CropBox(full, e) == Crop(full, e.x0, e.y0, e.x1, e.y1)

\* the extended box of one located rectangle, px_w, px_h = full.size
VectorBox(full, page, r, px_w, px_h) ==
    _extend_crop_to_content(full,
        PtToPx(r.x0, px_w, page.w), PtToPx(r.y0, px_h, page.h),
        PtToPx(r.x1, px_w, page.w), PtToPx(r.y1, px_h, page.h),
        px_w, px_h)

\* Path 2: the crops of the located rectangles
RECURSIVE VectorCrops(_, _, _)
VectorCrops(full, page, rects) ==
    IF rects = <<>> THEN <<>>
    ELSE KeepIfLarger(CropBox(full, VectorBox(full, page, Head(rects),
                                              ImgW(full), ImgH(full))),
                      VEC_MIN_SIDE)
             \o VectorCrops(full, page, Tail(rects))

VectorStrategy(full, page) == VectorCrops(full, page, _find_drawing_rects(page))

\* [t for r in regions if (t := _trim_whitespace_dim(r)) is not None]
RECURSIVE TrimAll(_)
TrimAll(regions) ==
    IF regions = <<>> THEN <<>>
    ELSE _trim_whitespace_dim(Head(regions), DIM_THRESHOLD) \o TrimAll(Tail(regions))

\* Path 3: the zone fallback
\* best_brightness > 235 and px_h * 0.25 < best_y < px_h * 0.75
\* a variant that splits whenever a strip was scanned
two_productsAnyStrip(full, split, px_h) == split.num > 0

two_products(full, split, px_h) ==
    /\ split.num > NEAR_WHITE * StripDen(full)
    /\ 25 * px_h < 100 * split.y
    /\ 100 * split.y < 75 * px_h

\* the regions cut from the left draw_right columns, split = (best_y, brightness)
ZoneRegions(full, split, draw_right, px_h) ==
    IF two_products(full, split, px_h)
    THEN << Crop(full, 0, 0, draw_right, split.y),
            Crop(full, 0, split.y, draw_right, px_h) >>
    ELSE << Crop(full, 0, 0, draw_right, px_h) >>

ZoneStrategy(full) ==
    TrimAll(ZoneRegions(full, _find_split_y(full),
                        (ImgW(full) * ZONE_PCT) \div 100, ImgH(full)))

\* The bitmap and the vector content of a page depend on the page alone,
\* so the crops of paths 2 and 3 are tabulated once per page kind.
VectorCropsOf == [k \in PageKinds |-> VectorStrategy(FullImage(k), PageOf(k))]

ZoneCropsOf == [k \in PageKinds |-> ZoneStrategy(FullImage(k))]

(***************************************************************************)
(* The program.  It is single-threaded: one operation runs at a time,      *)
(* from pc = "idle" back to pc = "idle".                                   *)
(***************************************************************************)
\* the most document handles left open at which an operation is started
MaxOpenDocs == 2

Idle == [op |-> "none", doc |-> <<>>, page_num |-> 0, api_key |-> FALSE, base |-> 0]

Started(op, doc, page_num, api_key) ==
    [op |-> op, doc |-> doc, page_num |-> page_num, api_key |-> api_key,
     base |-> open_docs]

NoHttp == [phase |-> "idle", cand |-> 0, attempt |-> 0]

NoStrat == [tried |-> <<>>, crops |-> <<>>]

NoReply == [done |-> FALSE, err |-> "", text |-> EmptyText, raised |-> FALSE,
            valid |-> <<>>]

\* a variant that hands the crops back in both lists
ResultInBothLists(kind, page, dim, at) ==
    [kind |-> kind, page |-> page, dim |-> dim, product |-> dim, at |-> at]

\* how an operation ended: page is the 1-based position of the page whose
\* image was returned (render functions), dim and product the two lists of
\* extract_page_images, at the step that raised
Result(kind, page, dim, at) ==
    [kind |-> kind, page |-> page, dim |-> dim, product |-> <<>>, at |-> at]

NoResult == Result("none", 0, <<>>, "")

\* no pure function is under study, no convert_prices call is running
NoPure == [name |-> "", arg |-> <<>>, ret |-> <<>>]

NoPrices ==
    [at |-> "none", cur |-> <<>>, raw_text |-> FALSE, doc |-> <<>>, p |-> 0,
     redactions |-> <<>>, k |-> 0, out |-> <<>>, log |-> <<>>]

Init ==
    /\ _working_model = NoModel
    /\ open_docs = 0
    /\ pc = "idle"
    /\ call = Idle
    /\ http = NoHttp
    /\ strat = NoStrat
    /\ reply = NoReply
    /\ result = NoResult
    /\ loc_page = VectorPage(<<>>, <<>>)
    /\ loc_rects = <<>>
    /\ pure = NoPure
    /\ prices = NoPrices

\* fitz.open adds a handle, doc.close() releases it
AfterRender(r) == open_docs + (IF r.closed THEN 0 ELSE 1)

\* ---- render_single_page, _render_page_full: one call each ----
RenderSinglePage(doc, page_num) ==
    /\ pc = "idle" /\ open_docs < MaxOpenDocs
    /\ LET r == render_single_page(doc, page_num)
       IN  /\ open_docs' = AfterRender(r)
           /\ result' = Result(r.kind, r.page, <<>>, "render")
    /\ call' = Started("render_single_page", doc, page_num, FALSE)
    /\ http' = NoHttp /\ strat' = NoStrat /\ reply' = NoReply
    /\ UNCHANGED <<_working_model, pc, loc_page, loc_rects, pure, prices>>

RenderPageFull(doc, page_num) ==
    /\ pc = "idle" /\ open_docs < MaxOpenDocs
    /\ LET r == _render_page_full(doc, page_num)
       IN  /\ open_docs' = AfterRender(r)
           /\ result' = Result(r.kind, r.page, <<>>, "render")
    /\ call' = Started("_render_page_full", doc, page_num, FALSE)
    /\ http' = NoHttp /\ strat' = NoStrat /\ reply' = NoReply
    /\ UNCHANGED <<_working_model, pc, loc_page, loc_rects, pure, prices>>

\* ---- render_pages: a generator.  call.page_num is the number of pages
\*      yielded so far; the handle is opened by the first next(). ----
RenderPagesStart(doc) ==
    /\ pc = "idle" /\ open_docs < MaxOpenDocs
    /\ call' = Started("render_pages", doc, 0, FALSE)
    /\ open_docs' = open_docs + 1
    /\ pc' = "gen_running"
    /\ result' = NoResult
    /\ http' = NoHttp /\ strat' = NoStrat /\ reply' = NoReply
    /\ UNCHANGED <<_working_model, loc_page, loc_rects, pure, prices>>

\* the loop body up to the yield, or the end of the loop and doc.close()
RenderPagesStep ==
    /\ pc = "gen_running"
    /\ IF call.page_num = Len(call.doc)
       THEN /\ open_docs' = open_docs - 1
            /\ pc' = "idle"
            /\ result' = Result("return", call.page_num, <<>>, "")
            /\ call' = call
       ELSE IF ~Renders(call.doc[call.page_num + 1])
       THEN /\ pc' = "idle"
            /\ result' = Result("raise", 0, <<>>, "render")
            /\ UNCHANGED <<open_docs, call>>
       ELSE /\ pc' = "gen_yielded"
            /\ call' = [call EXCEPT !.page_num = @ + 1]
            /\ UNCHANGED <<open_docs, result>>
    /\ UNCHANGED <<_working_model, http, strat, reply, loc_page, loc_rects, pure, prices>>

\* the consumer asks for the next page
RenderPagesNext ==
    /\ pc = "gen_yielded"
    /\ pc' = "gen_running"
    /\ UNCHANGED <<_working_model, open_docs, call, http, strat, reply, result,
                   loc_page, loc_rects, pure, prices>>

\* the consumer drops the generator: GeneratorExit is raised at the yield,
\* and the function has no finally clause
RenderPagesAbandon ==
    /\ pc = "gen_yielded"
    /\ pc' = "idle"
    /\ result' = Result("abandoned", call.page_num, <<>>, "")
    /\ UNCHANGED <<_working_model, open_docs, call, http, strat, reply,
                   loc_page, loc_rects, pure, prices>>

\* ---- extract_page_images ----
ExtractStart(doc, page_num, api_key) ==
    /\ pc = "idle" /\ open_docs < MaxOpenDocs
    /\ call' = Started("extract_page_images", doc, page_num, api_key)
    /\ pc' = "render"
    /\ result' = NoResult
    /\ http' = NoHttp /\ strat' = NoStrat /\ reply' = NoReply
    /\ UNCHANGED <<_working_model, open_docs, loc_page, loc_rects, pure, prices>>

\* extract_images_from_page: the wrapper calls extract_page_images without
\* an api_key and returns the 'product' list of its result
ExtractImagesStart(doc, page_num) ==
    /\ pc = "idle" /\ open_docs < MaxOpenDocs
    /\ call' = Started("extract_images_from_page", doc, page_num, FALSE)
    /\ pc' = "render"
    /\ result' = NoResult
    /\ http' = NoHttp /\ strat' = NoStrat /\ reply' = NoReply
    /\ UNCHANGED <<_working_model, open_docs, loc_page, loc_rects, pure, prices>>

\* the page extract_page_images works on (1-based position in the document)
CallPage == call.doc[DocIndex(call.doc, call.page_num)]

\* a variant that goes on to the next path whatever the path produced
AfterPathAlwaysOn(path, crops) ==
    IF path = "ai" THEN "vector"
    ELSE IF path = "vector" THEN "zone"
    ELSE "return"

\* what extract_page_images does with the crops a path produced:
\* "return" them, or go on to the path named
AfterPath(path, crops) ==
    IF crops # <<>> THEN "return"
    ELSE IF path = "ai" THEN "vector"
    ELSE IF path = "vector" THEN "zone"
    ELSE "return"

\* full = _render_page_full(...); then path 1 if an api_key is given
ExtractRender ==
    /\ pc = "render"
    /\ LET r == _render_page_full(call.doc, call.page_num)
       IN  /\ open_docs' = AfterRender(r)
           /\ IF r.kind = "raise"
              THEN /\ pc' = "idle"
                   /\ result' = Result("raise", 0, <<>>, "render")
                   /\ UNCHANGED <<http, strat>>
              ELSE IF call.api_key
              THEN /\ pc' = "ai"
                   /\ http' = IF _working_model # NoModel
                              THEN [phase |-> "cached", cand |-> 0, attempt |-> 0]
                              ELSE [phase |-> "cand", cand |-> 1, attempt |-> 0]
                   /\ strat' = [strat EXCEPT !.tried = Append(@, "ai")]
                   /\ UNCHANGED result
              ELSE /\ pc' = "vector"
                   /\ UNCHANGED <<http, strat, result>>
    /\ UNCHANGED <<_working_model, call, reply, loc_page, loc_rects, pure, prices>>

\* One requests.post of _call and everything that follows it without
\* another request: the rest of _call, of _call_best, of find_dim_boxes and
\* of path 1.
\* a path ended with the crops given: they are returned, or the next path
\* is entered
PathDone(crops, after) ==
    /\ strat' = [strat EXCEPT !.crops = Append(@, crops)]
    /\ IF after = "return"
       THEN /\ pc' = "idle"
            /\ result' = Result("return", 0, crops, "")
       ELSE /\ pc' = after
            /\ UNCHANGED result

\* find_dim_boxes returned f or raised, after _call_best returned b
AfterBoxes(b, f, crops) ==
    /\ _working_model' = b.model
    /\ http' = NoHttp
    /\ reply' = [done |-> TRUE, err |-> b.err, text |-> b.text,
                 raised |-> f.raised, valid |-> f.valid]
    /\ IF f.raised
       THEN /\ pc' = "idle"
            /\ result' = Result("raise", 0, <<>>, "ai")
            /\ UNCHANGED strat
       ELSE PathDone(crops, AfterPath("ai", crops))

\* _call_best decided b: another model is tried, or it returns
AfterBest(b, f) ==
    IF b.next # "return"
    THEN /\ http' = [phase |-> b.next, cand |-> b.cand, attempt |-> 0]
         /\ UNCHANGED <<_working_model, pc, strat, reply, result>>
    ELSE AfterBoxes(b, f, AiCrops(FullImage(CallPage), f.valid))

\* _call decided c: another attempt, or it returns to _call_best
AfterCall(c, b) ==
    IF ~c.done
    THEN /\ http' = [http EXCEPT !.attempt = @ + 1]
         /\ UNCHANGED <<_working_model, pc, strat, reply, result>>
    ELSE AfterBest(b, find_dim_boxes(b.text, b.err))

HttpPost(r) ==
    /\ pc = "ai"
    /\ AfterCall(_call(http.attempt, r),
                 _call_best(http.phase, http.cand, _call(http.attempt, r),
                            _working_model))
    /\ UNCHANGED <<open_docs, call, loc_page, loc_rects, pure, prices>>

\* paths 2 and 3 are entered and run in one step
PathEntered(path, crops) ==
    /\ strat' = [tried |-> Append(strat.tried, path),
                 crops |-> Append(strat.crops, crops)]
    /\ IF AfterPath(path, crops) = "return"
       THEN /\ pc' = "idle"
            /\ result' = Result("return", 0, crops, "")
       ELSE /\ pc' = AfterPath(path, crops)
            /\ UNCHANGED result

\* path 2: the document is opened, the rectangles located, the document
\* closed; then the crops
ExtractVector ==
    /\ pc = "vector"
    /\ PathEntered("vector", VectorCropsOf[CallPage])
    /\ UNCHANGED <<_working_model, open_docs, call, http, reply, loc_page, loc_rects, pure, prices>>

\* path 3
ExtractZone ==
    /\ pc = "zone"
    /\ PathEntered("zone", ZoneCropsOf[CallPage])
    /\ UNCHANGED <<_working_model, open_docs, call, http, reply, loc_page, loc_rects, pure, prices>>

Next ==
    \/ \E doc \in Docs, page_num \in PageNums : RenderSinglePage(doc, page_num)
    \/ \E doc \in Docs, page_num \in PageNums : RenderPageFull(doc, page_num)
    \/ \E doc \in Docs : RenderPagesStart(doc)
    \/ RenderPagesStep
    \/ RenderPagesNext
    \/ RenderPagesAbandon
    \/ \E doc \in Docs, page_num \in PageNums, api_key \in BOOLEAN :
           ExtractStart(doc, page_num, api_key)
    \/ \E doc \in Docs, page_num \in PageNums : ExtractImagesStart(doc, page_num)
    \/ ExtractRender
    \/ \E r \in Replies : HttpPost(r)
    \/ ExtractVector
    \/ ExtractZone

Spec == Init /\ [][Next]_vars


(***************************************************************************)
(* Properties of extract_page_images and the rendering functions (Spec)    *)
(***************************************************************************)
Extracting == call.op = "extract_page_images"

\* the strategies a call may run, in order
Strategies == IF call.api_key THEN <<"ai", "vector", "zone">> ELSE <<"vector", "zone">>

IsPrefix(s, t) == Len(s) <= Len(t) /\ s = SubSeq(t, 1, Len(s))

Returned == Extracting /\ result.kind = "return"

\* C1: extract_page_images runs a prefix of [AI (only with an api_key),
\* vector, zone]: no strategy is attempted twice, a strategy is attempted
\* only when every earlier one yielded no crop, and what is returned is the
\* list of the first strategy that yielded a non-empty one (the empty list
\* when all of them were attempted and none did).
C1_StrategyPrefix ==
    Extracting =>
        /\ IsPrefix(strat.tried, Strategies)
        /\ Len(strat.crops) <= Len(strat.tried)
        /\ \A i \in 1..Len(strat.crops) :
               i < Len(strat.tried) => strat.crops[i] = <<>>
        /\ result.kind = "return" =>
               /\ Len(strat.crops) = Len(strat.tried) /\ strat.crops # <<>>
               /\ result.dim = strat.crops[Len(strat.crops)]
               /\ result.dim = <<>> => strat.tried = Strategies

\* the AI strategy yielded nothing and the vector strategy's crops are returned
C1_Witness ==
    /\ Returned /\ strat.tried = <<"ai", "vector">>
    /\ strat.crops[1] = <<>> /\ result.dim = strat.crops[2] /\ result.dim # <<>>

\* the call to the AI service ended in an error: _call_best gave up on every
\* model, or the reply is null, empty or holds no JSON list
AiFailed ==
    /\ Extracting /\ reply.done
    /\ \/ reply.err # ""
       \/ reply.text.kind \in {"null", "empty"}
       \/ reply.text.list = <<>>

\* C2: when the AI call ends in an error (HTTP status other than 200, request
\* exception or timeout, rate-limit retries exhausted, empty or unparsable
\* reply) find_dim_boxes returns [] without raising, and extract_page_images
\* goes on to the vector strategy.
C2_AiErrorFallsThrough ==
    AiFailed =>
        /\ ~reply.raised /\ reply.valid = <<>>
        /\ result.kind # "raise"
        /\ pc = "vector" \/ (Len(strat.tried) >= 2 /\ strat.tried[2] = "vector")

\* every model was rate limited four times over, and the vector strategy is next
C2_Witness ==
    /\ AiFailed /\ pc = "vector"
    /\ reply.err = "All models failed. Last error: Rate limited after retries"

\* what the validation is to keep of a parsed reply: the entries whose four
\* coordinates are numbers with 0 <= x0 < x1 <= 100 and 0 <= y0 < y1 <= 100
IsNumber(c) == c.t \in {"num", "numstr", "huge"}

\* a "huge" coordinate is a number above every bound
InPercentRange(b) ==
    /\ \A c \in {b.x0, b.y0, b.x1, b.y1} : IsNumber(c) /\ c.t # "huge"
    /\ 0 <= b.x0.v /\ b.x0.v < b.x1.v /\ b.x1.v <= 100
    /\ 0 <= b.y0.v /\ b.y0.v < b.y1.v /\ b.y1.v <= 100

PlainBox(b) == [x0 |-> b.x0.v, y0 |-> b.y0.v, x1 |-> b.x1.v, y1 |-> b.y1.v]

RECURSIVE ValidOnes(_)
ValidOnes(boxes) ==
    IF boxes = <<>> THEN <<>>
    ELSE (IF InPercentRange(Head(boxes)) THEN <<PlainBox(Head(boxes))>> ELSE <<>>)
             \o ValidOnes(Tail(boxes))

\* C3: every box turned into a crop is within 0 <= x0 < x1 <= 100 and
\* 0 <= y0 < y1 <= 100; a box that is out of range, lacks a coordinate or has
\* a non-numeric one is discarded on its own, and the valid boxes of the
\* same reply are still used.
C3_InvalidBoxesDiscardedAlone ==
    (Extracting /\ reply.done /\ reply.err = "" /\ reply.text.kind = "str") =>
        /\ ~reply.raised
        /\ reply.valid = ValidOnes(reply.text.list)

InsideDocument == 0 <= call.page_num /\ call.page_num < Len(call.doc)

\* a page that renders, with no ink and no vector content
IsBlank(k) == Renders(k) /\ Inks(k) = <<>> /\ PageDrawings(k) = <<>>

\* C4: for a page index inside the document, extract_page_images does not
\* raise because nothing was found: when every strategy it runs yields
\* nothing (as on a blank page, where the trimmer returns None) it returns
\* normally, with both lists empty.
C4_NothingFoundReturnsEmpty ==
    (Extracting /\ InsideDocument) =>
        /\ (/\ Len(strat.crops) = Len(Strategies)
            /\ \A i \in 1..Len(strat.crops) : strat.crops[i] = <<>>)
           => (result.kind = "return" /\ result.dim = <<>> /\ result.product = <<>>)
        /\ (pc = "idle" /\ IsBlank(CallPage) /\ reply.valid = <<>> /\ ~reply.raised)
           => (result.kind = "return" /\ result.dim = <<>> /\ result.product = <<>>)
        /\ (result.kind = "raise" /\ result.at # "render") => reply.raised

\* a blank page, the AI service failing: all three strategies ran, lists empty
C4_Witness ==
    /\ Returned /\ InsideDocument /\ IsBlank(CallPage)
    /\ strat.tried = <<"ai", "vector", "zone">> /\ reply.err # ""
    /\ result.dim = <<>> /\ result.product = <<>>

PageLevelOps == {"render_single_page", "_render_page_full", "extract_page_images"}

OutsideDocument == call.page_num < 0 \/ call.page_num >= Len(call.doc)

\* C5: a page index outside the document's range makes every page-level
\* operation raise; no operation returns another page's content or an empty
\* result for it.
C5_OutOfRangeRaises ==
    (call.op \in PageLevelOps /\ OutsideDocument /\ pc = "idle")
        => result.kind = "raise"

RenderingOps == {"render_single_page", "render_pages", "_render_page_full"}

\* C6: when a rendering operation is over (returned, raised, or its generator
\* abandoned) the document handle it opened has been closed.
C6_HandleClosedOnEveryExit ==
    (call.op \in RenderingOps /\ pc = "idle") => open_docs = call.base

\* C7: no step of an extract_page_images call changes a module-level
\* variable.
C7_NoSharedMutableState ==
    [][Extracting => _working_model' = _working_model]_vars

\* extract_page_images runs, called directly or by extract_images_from_page
ViaWrapper == call.op = "extract_images_from_page"

ZoneReturned ==
    /\ Returned /\ strat.tried # <<>>
    /\ strat.tried[Len(strat.tried)] = "zone"

\* the sections of the page, as the rows [top, bottom) of each
Sections(full, split) ==
    IF two_products(full, split, ImgH(full))
    THEN << <<0, split.y>>, <<split.y, ImgH(full)>> >>
    ELSE << <<0, ImgH(full)>> >>

\* per section, the left draw_right columns trimmed with the illustration
\* variant, and the remaining columns trimmed with the dimension variant
RECURSIVE LeftIllustrations(_, _, _)
LeftIllustrations(full, sections, draw_right) ==
    IF sections = <<>> THEN <<>>
    ELSE _trim_whitespace(Crop(full, 0, Head(sections)[1],
                               draw_right, Head(sections)[2]), ILLUS_THRESHOLD)
         \o LeftIllustrations(full, Tail(sections), draw_right)

RECURSIVE RightDrawings(_, _, _)
RightDrawings(full, sections, draw_right) ==
    IF sections = <<>> THEN <<>>
    ELSE _trim_whitespace_dim(Crop(full, draw_right, Head(sections)[1],
                                   ImgW(full), Head(sections)[2]), DIM_THRESHOLD)
         \o RightDrawings(full, Tail(sections), draw_right)

ZoneLists(full, sections, draw_right) ==
    /\ result.product = LeftIllustrations(full, sections, draw_right)
    /\ result.dim = RightDrawings(full, sections, draw_right)

\* C13: in the zone fallback each section of the page yields two crops: the
\* fixed left-side fraction of the page width, trimmed with the illustration
\* variant, goes to the illustration list, and the remaining right-side
\* fraction, trimmed with the dimension-drawing variant, goes to the
\* dimension-drawing list.
C13_ZoneYieldsBothLists ==
    ZoneReturned =>
        ZoneLists(FullImage(CallPage),
                  Sections(FullImage(CallPage), _find_split_y(FullImage(CallPage))),
                  (PxW * ZONE_PCT) \div 100)

(***************************************************************************)
(* The locator specification: _find_drawing_rects applied to every page    *)
(* built from at most MaxPaths sample paths and a sample list of spans.    *)
(***************************************************************************)
LocInit ==
    /\ _working_model = NoModel
    /\ open_docs = 0
    /\ pc = "locate"
    /\ call = Idle
    /\ http = NoHttp
    /\ strat = NoStrat
    /\ reply = NoReply
    /\ result = NoResult
    /\ loc_page \in LocPages
    /\ loc_rects = <<>>
    /\ pure = NoPure
    /\ prices = NoPrices

Locate ==
    /\ pc = "locate"
    /\ loc_rects' = _find_drawing_rects(loc_page)
    /\ pc' = "located"
    /\ UNCHANGED <<_working_model, open_docs, call, http, strat, reply, result,
                   loc_page, pure, prices>>

LocNext == Locate

SpecLocate == LocInit /\ [][LocNext]_vars

(***************************************************************************)
(* Properties of _find_drawing_rects (SpecLocate)                          *)
(***************************************************************************)
Located == pc = "located"

\* the candidates that survive the filters, and the label anchors, of the page
Pool == RectPool(loc_page.drawings, loc_page.w, loc_page.h)

Anchors == LabelPts(loc_page.spans)

Range(s) == {s[i] : i \in 1..Len(s)}

\* C8: _find_drawing_rects returns at most two rectangles, in non-decreasing
\* order of y0, through the anchors as through the fallback, and the empty
\* list when no candidate survives the filters.
C8_AtMostTwoSortedByTop ==
    Located =>
        /\ Len(loc_rects) <= 2
        /\ \A i, j \in 1..Len(loc_rects) : i < j => loc_rects[i].y0 <= loc_rects[j].y0
        /\ Range(loc_rects) \subseteq Range(Pool)
        /\ Pool = <<>> => loc_rects = <<>>

\* the fallback on three candidates that are not in top-to-bottom order
C8_Witness ==
    /\ Located /\ Anchors = <<>>
    /\ Len(Pool) = 3 /\ Pool[1].y0 > Pool[2].y0 /\ Pool[2].y0 > Pool[3].y0
    /\ loc_rects = <<Pool[3], Pool[2]>>

\* the rectangles drawn on the page: one per path that forms a rectangle
DrawnRects ==
    {_rect_from_path_items(loc_page.drawings[i])[1] :
        i \in {j \in 1..Len(loc_page.drawings) :
                  _rect_from_path_items(loc_page.drawings[j]) # <<>>}}

\* the rectangle covers pct % of the page width
CoversWidth(r, pct) == RectWidth(r) * 100 = pct * 2 * loc_page.w

InLeftHalf(r) == 0 <= r.x0 /\ r.x1 <= loc_page.w

\* C9, as stated: a rectangle covering 90 % of the page width is never
\* returned, and a rectangle covering 40 % of the page width that lies in
\* the left half of the page is returned.
C9_WidthFilter ==
    Located =>
        \A r \in DrawnRects :
            /\ CoversWidth(r, 90) => r \notin Range(loc_rects)
            /\ (CoversWidth(r, 40) /\ InLeftHalf(r)) => r \in Range(loc_rects)

\* what else the code needs to return the 40 % rectangle: it is at least 8 %
\* of the page height tall, at most two candidates survive the filters, and
\* no label anchor lies inside a surviving candidate
TallEnough(r) == RectHeight(r) * 100 >= SIZE_PCT * 2 * loc_page.h

NoAnchorInside == \A k \in 1..Len(Anchors) : Containing(Pool, Anchors[k]) = <<>>

\* C9, amended: a rectangle covering 90 % of the page width is never
\* returned; a rectangle covering 40 % of the page width in the left half is
\* returned when it is at least 8 % of the page height tall, at most two
\* candidates survive the filters and no label anchor lies inside one.
C9_WidthFilterAmended ==
    Located =>
        \A r \in DrawnRects :
            /\ CoversWidth(r, 90) => r \notin Range(loc_rects)
            /\ (/\ CoversWidth(r, 40) /\ InLeftHalf(r)
                /\ TallEnough(r) /\ Len(Pool) <= 2 /\ NoAnchorInside)
               => r \in Range(loc_rects)

\* the outer border and a 40 % box on one page: only the box is returned
C9_Witness ==
    /\ Located /\ NoAnchorInside
    /\ \E r \in DrawnRects : CoversWidth(r, 90) /\ r \notin Range(loc_rects)
    /\ \E r \in DrawnRects : /\ CoversWidth(r, 40) /\ InLeftHalf(r) /\ TallEnough(r)
                             /\ loc_rects = <<r>>

\* label anchors exist and one lies inside a surviving candidate
AnchorsUsed == \E k \in 1..Len(Anchors) : Containing(Pool, Anchors[k]) # <<>>

\* r is of least area among the surviving candidates that contain anchor p
LeastAround(r, p) ==
    /\ r \in Range(Containing(Pool, p))
    /\ \A o \in Range(Containing(Pool, p)) : Area(r) <= Area(o)

\* the pool is two boxes, one above the other, each around a label anchor
TwoStacked(upper, lower) ==
    /\ Len(Pool) = 2 /\ Range(Pool) = {upper, lower}
    /\ upper.y1 <= lower.y0
    /\ \E k \in 1..Len(Anchors) : Contains(upper, Anchors[k])
    /\ \E k \in 1..Len(Anchors) : Contains(lower, Anchors[k])

\* C10: when an anchor lies inside a surviving candidate, every rectangle
\* returned is, for some anchor, the least-area surviving candidate that
\* contains it, no two returned rectangles have the same rounded top-left
\* corner, and of two stacked boxes that each contain a diameter label
\* exactly those two are returned, the top one first.
C10_AnchoredSelection ==
    (Located /\ AnchorsUsed) =>
        /\ \A i \in 1..Len(loc_rects) :
               \E k \in 1..Len(Anchors) : LeastAround(loc_rects[i], Anchors[k])
        /\ \A i, j \in 1..Len(loc_rects) :
               i # j => CornerKey(loc_rects[i]) # CornerKey(loc_rects[j])
        /\ \A upper, lower \in Range(Pool) :
               TwoStacked(upper, lower) => loc_rects = <<upper, lower>>

\* the lower box is drawn and labelled first, and the upper one comes first
C10_Witness ==
    /\ Located /\ AnchorsUsed
    /\ Len(Pool) = 2 /\ TwoStacked(Pool[2], Pool[1])
    /\ Contains(Pool[1], Anchors[1])
    /\ loc_rects = <<Pool[2], Pool[1]>>

(***************************************************************************)
(* The path specification: _rect_from_path_items applied to every path of  *)
(* at most MaxItems items drawn from the sides and diagonals of one box.   *)
(***************************************************************************)
MaxItems == 5

\* the corners of BoxA, clockwise from the top left, and a point on its
\* lower side
CornerA == Pt(BoxA.x0, BoxA.y0)

CornerB == Pt(BoxA.x1, BoxA.y0)

CornerC == Pt(BoxA.x1, BoxA.y1)

CornerD == Pt(BoxA.x0, BoxA.y1)

MidLower == Pt(30, BoxA.y1)

LineItem(p, q) == <<"l", p, q>>

MoveItem(p) == <<"m", p>>

PathItems ==
    { LineItem(CornerA, CornerB), LineItem(CornerB, CornerC),
      LineItem(CornerC, CornerD), LineItem(CornerD, CornerA),
      LineItem(CornerA, CornerC), LineItem(CornerB, CornerD),
      LineItem(CornerC, MidLower), MoveItem(CornerA), ReItem(BoxA) }

PathInit ==
    /\ _working_model = NoModel
    /\ open_docs = 0
    /\ pc = "path"
    /\ call = Idle
    /\ http = NoHttp
    /\ strat = NoStrat
    /\ reply = NoReply
    /\ result = NoResult
    /\ loc_page = VectorPage(<<>>, <<>>)
    /\ loc_rects = <<>>
    /\ \E items \in SeqsUpTo(PathItems, MaxItems) :
           pure = [name |-> "_rect_from_path_items", arg |-> items, ret |-> <<>>]
    /\ prices = NoPrices

RectFromPathItems ==
    /\ pc = "path"
    /\ pure' = [pure EXCEPT !.ret = _rect_from_path_items(pure.arg)]
    /\ pc' = "pathed"
    /\ UNCHANGED <<_working_model, open_docs, call, http, strat, reply, result,
                   loc_page, loc_rects, prices>>

PathNext == RectFromPathItems

SpecPath == PathInit /\ [][PathNext]_vars

(***************************************************************************)
(* Properties of _rect_from_path_items (SpecPath)                          *)
(***************************************************************************)
Pathed == pc = "pathed"

\* the path's first item is an explicit rectangle primitive
IsRePrimitive(items) == items # <<>> /\ items[1][1] = "re"

LineItems(items) == SelectSeq(items, LAMBDA it : it[1] = "l")

\* a line segment without its direction, in whole points
Undirected(it) ==
    { Pt(PyRound(it[2].x), PyRound(it[2].y)), Pt(PyRound(it[3].x), PyRound(it[3].y)) }

\* the four sides of the box spanned by the given whole-point coordinates
SidesOf(xa, ya, xb, yb) ==
    { {Pt(xa, ya), Pt(xb, ya)}, {Pt(xb, ya), Pt(xb, yb)},
      {Pt(xb, yb), Pt(xa, yb)}, {Pt(xa, yb), Pt(xa, ya)} }

\* every line segment starts where the one before it ended, and the last
\* ends where the first started
ClosedChain(ls) ==
    /\ ls # <<>>
    /\ \A i \in 1..(Len(ls) - 1) : ls[i][3] = ls[i + 1][2]
    /\ ls[Len(ls)][3] = ls[1][2]

\* a closed polyline of 4..5 items that runs along the four sides of a box
CleanRectangle(items) ==
    /\ 4 <= Len(items) /\ Len(items) <= 5
    /\ ClosedChain(LineItems(items))
    /\ \E xa, xb \in {PyRound(BoxA.x0), PyRound(BoxA.x1), PyRound(MidLower.x)} :
       \E ya, yb \in {PyRound(BoxA.y0), PyRound(BoxA.y1)} :
           /\ xa < xb /\ ya < yb
           /\ {Undirected(LineItems(items)[i]) : i \in 1..Len(LineItems(items))}
                  = SidesOf(xa, ya, xb, yb)

\* C11: a path resolves to a rectangle only when it is an explicit rectangle
\* primitive or a closed polyline of 4..5 items with exactly two distinct X
\* and two distinct Y; every other path (an open or self-crossing polyline
\* through the corners, say) yields None.
C11_OnlyCleanRectangles ==
    Pathed => (pure.ret # <<>>
                  <=> (IsRePrimitive(pure.arg) \/ CleanRectangle(pure.arg)))

(***************************************************************************)
(* The zone specification: the split decision of the zone fallback         *)
(* (_find_split_y and the regions of extract_page_images, path 3) applied  *)
(* to pages of several heights, each a window onto a sample bitmap.        *)
(***************************************************************************)
\* the narrowest and the shortest page; on a page of MinPageH rows or more
\* every strip of _find_split_y lies inside the page
ZonePageW == 12

MinPageH == 24

ZoneKinds == BandKinds \cup {"blank", "twozone"}

\* a window is the top row and the height of a page
ZoneWindows ==
    { w \in {y \in 0..PxH : y % 8 = 0} \X {n \in MinPageH..PxH : n % 2 = 0} :
          w[1] + w[2] <= PxH }

ZonePages ==
    { Image(k, 0, w[1], ZonePageW, w[1] + w[2]) : k \in ZoneKinds, w \in ZoneWindows }

\* best_y, best_brightness and regions of path 3
ZoneCut(full, split) ==
    [split   |-> split,
     regions |-> ZoneRegions(full, split, (ImgW(full) * ZONE_PCT) \div 100,
                             ImgH(full))]

ZoneInit ==
    /\ _working_model = NoModel
    /\ open_docs = 0
    /\ pc = "zone-split"
    /\ call = Idle
    /\ http = NoHttp
    /\ strat = NoStrat
    /\ reply = NoReply
    /\ result = NoResult
    /\ loc_page = VectorPage(<<>>, <<>>)
    /\ loc_rects = <<>>
    /\ \E full \in ZonePages :
           pure = [name |-> "_find_split_y", arg |-> full, ret |-> <<>>]
    /\ prices = NoPrices

ZoneSplit ==
    /\ pc = "zone-split"
    /\ pure' = [pure EXCEPT !.ret = ZoneCut(pure.arg, _find_split_y(pure.arg))]
    /\ pc' = "zone-cut"
    /\ UNCHANGED <<_working_model, open_docs, call, http, strat, reply, result,
                   loc_page, loc_rects, prices>>

ZoneNext == ZoneSplit

SpecZone == ZoneInit /\ [][ZoneNext]_vars

(***************************************************************************)
(* Properties of the split decision (SpecZone)                             *)
(***************************************************************************)
ZoneCutDone == pc = "zone-cut"

\* the strips _find_split_y scans: tops from 30 % to 70 % of the height, in
\* steps of 5
ScannedTops(full) ==
    { y \in ((ImgH(full) * 30) \div 100)..(scan_end(ImgH(full)) - 1) :
          (y - (ImgH(full) * 30) \div 100) % SPLIT_STEP = 0 }

\* the brightness numerators of the scanned strips, by strip top
StripSums(full) == [y \in ScannedTops(full) |-> StripSum(full, y)]

\* y is the top of a brightest scanned strip
Brightest(sums, y) ==
    /\ y \in DOMAIN sums
    /\ \A o \in DOMAIN sums : sums[o] <= sums[y]

\* the mean brightness of the strip at y is above 235
AboveNearWhite(full, sums, y) == sums[y] > NEAR_WHITE * StripDen(full)

\* the centre of the strip at y lies strictly between 25 % and 75 % of the
\* page height
CentreInside(full, y) ==
    /\ 25 * ImgH(full) < 100 * (y + 4)
    /\ 100 * (y + 4) < 75 * ImgH(full)

\* the sections the fallback cut: one, or two that meet at row at
OneSection(full, regions) ==
    /\ Len(regions) = 1
    /\ regions[1].y0 = full.y0 /\ regions[1].y1 = full.y1

TwoSections(full, regions, at) ==
    /\ Len(regions) = 2
    /\ regions[1].y0 = full.y0 /\ regions[1].y1 = full.y0 + at
    /\ regions[2].y0 = full.y0 + at /\ regions[2].y1 = full.y1

\* the rows of mean brightness above 235
RowSum(full, j) ==
    SumOver(LAMBDA i : Px(full, i, j)[1] + Px(full, i, j)[2] + Px(full, i, j)[3],
            0, ImgW(full) - 1)

NearWhiteRows(full) ==
    { j \in 0..(ImgH(full) - 1) : RowSum(full, j) > NEAR_WHITE * 3 * ImgW(full) }

\* the near-white rows of a page of h rows form one band, with darker rows
\* above and below it, and the band is centred at half the page height
BandTop(rows) == SetMin(rows)

BandEnd(rows) == SetMax(rows) + 1

BandAtHalf(h, rows) ==
    /\ rows # {}
    /\ 0 < BandTop(rows) /\ BandEnd(rows) < h
    /\ rows = BandTop(rows)..(BandEnd(rows) - 1)
    /\ (BandTop(rows) + BandEnd(rows)) - h \in {-1, 0, 1}

UniformMidGray(full) ==
    \A j \in 0..(ImgH(full) - 1), i \in 0..(ImgW(full) - 1) : Px(full, i, j) = MIDGRAY

Distance(a, b) == IF a >= b THEN a - b ELSE b - a

\* the split decision follows the brightest scanned strip: two sections that
\* meet at its centre when it is above 235 and centred in 25 %..75 %, one
\* section otherwise
SplitFollowsBrightest(full, ret, sums) ==
    IF \E y \in DOMAIN sums : sums[y] > 0
    THEN /\ Brightest(sums, ret.split.y - 4)
         /\ IF AboveNearWhite(full, sums, ret.split.y - 4)
               /\ CentreInside(full, ret.split.y - 4)
            THEN TwoSections(full, ret.regions, ret.split.y)
            ELSE OneSection(full, ret.regions)
    ELSE OneSection(full, ret.regions)

\* of several equally bright strips the topmost decides
FirstBrightest(ret, sums) ==
    \A y \in DOMAIN sums : Brightest(sums, y) => ret.split.y - 4 <= y

\* a page with a near-white band centred at half its height is split within
\* a strip height of the band's centre (distances doubled: the centre of a
\* band may fall on a half row)
SplitNearBandCentre(h, ret, rows) ==
    BandAtHalf(h, rows)
        => /\ Len(ret.regions) = 2
           /\ Distance(2 * ret.split.y, BandTop(rows) + BandEnd(rows)) <= 2 * STRIP_H

WholeStripBand == STRIP_H + SPLIT_STEP - 1

\* a page with a near-white band centred at half its height, the band at
\* least WholeStripBand rows tall, is split at the centre of the first
\* scanned strip that lies wholly inside the band
SplitAtFirstStripInBand(h, ret, rows) ==
    (BandAtHalf(h, rows) /\ BandEnd(rows) - BandTop(rows) >= WholeStripBand)
        => /\ Len(ret.regions) = 2
           /\ BandTop(rows) <= ret.split.y - 4
           /\ ret.split.y + 4 <= BandEnd(rows)
           /\ ret.split.y - 4 < Max(BandTop(rows), (h * 30) \div 100) + SPLIT_STEP

DIGITS == <<"0", "1", "2", "3", "4", "5", "6", "7", "8", "9">>

IsDigit(c) == \E i \in 1..Len(DIGITS) : DIGITS[i] = c

DigitVal(c) == (CHOOSE i \in 1..Len(DIGITS) : DIGITS[i] = c) - 1

\* str.isspace() for one character
IsSpace(c) == c \in {" ", "\n"}

\* s.strip()
RECURSIVE LStrip(_)
LStrip(s) == IF s # <<>> /\ IsSpace(Head(s)) THEN LStrip(Tail(s)) ELSE s

RECURSIVE RStrip(_)
RStrip(s) ==
    IF s # <<>> /\ IsSpace(s[Len(s)]) THEN RStrip(SubSeq(s, 1, Len(s) - 1)) ELSE s

Strip(s) == RStrip(LStrip(s))

\* s.replace(a, b) for a one-character a
RECURSIVE ReplaceChar(_, _, _)
ReplaceChar(s, a, b) ==
    IF s = <<>> THEN <<>>
    ELSE (IF Head(s) = a THEN b ELSE <<Head(s)>>) \o ReplaceChar(Tail(s), a, b)

\* the length of the run of digits that starts at position i
RECURSIVE DigitRun(_, _)
DigitRun(s, i) ==
    IF i <= Len(s) /\ IsDigit(s[i]) THEN 1 + DigitRun(s, i + 1) ELSE 0

\* int(s) for a string of digits
RECURSIVE DigitsVal(_)
DigitsVal(s) ==
    IF s = <<>> THEN 0
    ELSE DigitsVal(SubSeq(s, 1, Len(s) - 1)) * 10 + DigitVal(s[Len(s)])

\* the position of the first c in s, 0 if there is none
FirstPos(s, c) ==
    IF \E i \in 1..Len(s) : s[i] = c
    THEN SetMin({i \in 1..Len(s) : s[i] = c})
    ELSE 0

(***************************************************************************)
(* A float that came from a decimal literal is kept as n / 10^d with the   *)
(* least d: 1234.50 and 1234.5 are the same value [n |-> 12345, d |-> 1].  *)
(***************************************************************************)
RECURSIVE Decimal(_, _)
Decimal(n, d) ==
    IF d > 0 /\ n % 10 = 0 THEN Decimal(n \div 10, d - 1) ELSE [n |-> n, d |-> d]

\* float(s) for a string of digits, blanks and dots: <<>> is ValueError.
\* float() strips blanks at both ends and accepts "12", "12.", ".5", "1.5".
FloatAt(t, dot) ==
    IF dot = 0 THEN <<Decimal(DigitsVal(t), 0)>>
    ELSE <<Decimal(DigitsVal(SubSeq(t, 1, dot - 1) \o SubSeq(t, dot + 1, Len(t))),
                   Len(t) - dot)>>

FloatOfStripped(t) ==
    IF /\ \E i \in 1..Len(t) : IsDigit(t[i])
       /\ \A i \in 1..Len(t) : IsDigit(t[i]) \/ t[i] = "."
       /\ Cardinality({i \in 1..Len(t) : t[i] = "."}) <= 1
    THEN FloatAt(t, FirstPos(t, "."))
    ELSE <<>>

PyFloat(s) == FloatOfStripped(Strip(s))

(***************************************************************************)
(* _parse_price: <<>> is None, <<v>> the value                             *)
(***************************************************************************)
\* (\.\d{3})+ from position i, greedy: the position after the last group
RECURSIVE AfterGroups(_, _)
AfterGroups(s, i) ==
    IF /\ i + 3 <= Len(s) /\ s[i] = "."
       /\ IsDigit(s[i + 1]) /\ IsDigit(s[i + 2]) /\ IsDigit(s[i + 3])
    THEN AfterGroups(s, i + 4)
    ELSE i

\* (,\d{1,2})$ at position i
CommaDecimalAt(s, i) ==
    /\ i <= Len(s) /\ s[i] = ","
    /\ Len(s) - i \in {1, 2}
    /\ \A j \in (i + 1)..Len(s) : IsDigit(s[j])

\* the groups of the first pattern end at position g - 1, after k leading digits
ThousandsFrom(s, k, g) ==
    /\ k \in 1..3
    /\ g > k + 1
    /\ (g = Len(s) + 1 \/ CommaDecimalAt(s, g))

\* a variant that never takes the dot for a thousands separator
MatchesThousandsNever(s) == FALSE

\* re.match(r'^\d{1,3}(\.\d{3})+(,\d{1,2})?$', s)
MatchesThousands(s) ==
    ThousandsFrom(s, DigitRun(s, 1), AfterGroups(s, DigitRun(s, 1) + 1))

\* re.match(r'^\d+(,\d{1,2})$', s)
MatchesCommaDecimal(s) ==
    DigitRun(s, 1) >= 1 /\ CommaDecimalAt(s, DigitRun(s, 1) + 1)

ParseStripped(s) ==
    IF MatchesThousands(s)
    THEN PyFloat(ReplaceChar(ReplaceChar(s, ".", <<>>), ",", <<".">>))
    ELSE IF MatchesCommaDecimal(s)
    THEN PyFloat(ReplaceChar(s, ",", <<".">>))
    ELSE PyFloat(ReplaceChar(s, ",", <<>>))

_parse_price(price_str) == ParseStripped(Strip(price_str))

(***************************************************************************)
(* The parse specification: _parse_price applied to every string of at     *)
(* most MaxPriceLen characters over PriceAlphabet and to the sample prices.*)
(***************************************************************************)
MaxPriceLen == 6

PriceAlphabet == {"0", "1", ".", ",", " "}

SamplePrices ==
    { <<"1", ".", "2", "3", "4", ",", "5", "0">>,
      <<"1", "4", "4", "6", "9", ",", "0", "0">>,
      <<"1", "2", "3", "4", ".", "5", "0">>,
      <<"1", ",", "2", "3", "4", ".", "5", "0">>,
      <<"1", ".", "2", "3", "4", ".", "5", "6", "7">>,
      <<"1", "4", "9", ",", "0", "0">>,
      <<"1", " ", "2", "3", "4">>,
      <<"5">> }

PriceStrings == SeqsUpTo(PriceAlphabet, MaxPriceLen) \cup SamplePrices

ParseInit ==
    /\ _working_model = NoModel
    /\ open_docs = 0
    /\ pc = "parse"
    /\ call = Idle
    /\ http = NoHttp
    /\ strat = NoStrat
    /\ reply = NoReply
    /\ result = NoResult
    /\ loc_page = VectorPage(<<>>, <<>>)
    /\ loc_rects = <<>>
    /\ \E price_str \in PriceStrings :
           pure = [name |-> "_parse_price", arg |-> price_str, ret |-> <<>>]
    /\ prices = NoPrices

ParsePrice ==
    /\ pc = "parse"
    /\ pure' = [pure EXCEPT !.ret = _parse_price(pure.arg)]
    /\ pc' = "parsed"
    /\ UNCHANGED <<_working_model, open_docs, call, http, strat, reply, result,
                   loc_page, loc_rects, prices>>

ParseNext == ParsePrice

SpecParse == ParseInit /\ [][ParseNext]_vars

(***************************************************************************)
(* Properties of _parse_price (SpecParse)                                  *)
(***************************************************************************)
Parsed == pc = "parsed"

AllDigits(s) == \A i \in 1..Len(s) : IsDigit(s[i])

\* the part of s before position p and the part after it (p = 0: all, none)
Before(s, p) == IF p = 0 THEN s ELSE SubSeq(s, 1, p - 1)

After(s, p) == IF p = 0 THEN <<>> ELSE SubSeq(s, p + 1, Len(s))

\* ip is 1..3 digits followed by one or more groups of a dot and 3 digits
DotGrouped(ip) ==
    \E k \in 1..3 :
        /\ Len(ip) > k /\ (Len(ip) - k) % 4 = 0
        /\ \A i \in 1..Len(ip) :
               IF i > k /\ (i - k) % 4 = 1 THEN ip[i] = "." ELSE IsDigit(ip[i])

\* shape 1: dot-as-thousands with an optional comma decimal of 1..2 digits
ThousandsShape(s) ==
    /\ DotGrouped(Before(s, FirstPos(s, ",")))
    /\ FirstPos(s, ",") # 0
           => Len(After(s, FirstPos(s, ","))) \in {1, 2}
              /\ AllDigits(After(s, FirstPos(s, ",")))

\* shape 2: digits and a comma decimal of 1..2 digits
CommaShape(s) ==
    /\ FirstPos(s, ",") > 1
    /\ AllDigits(Before(s, FirstPos(s, ",")))
    /\ Len(After(s, FirstPos(s, ","))) \in {1, 2}
    /\ AllDigits(After(s, FirstPos(s, ",")))

\* the number with the integer digits ip and the fraction digits fp
NumberOf(ip, fp) == Decimal(DigitsVal(ip \o fp), Len(fp))

\* t reads as a number: digits with at most one dot, blanks around it
PlainNumber(t) ==
    /\ AllDigits(Before(t, FirstPos(t, "."))) /\ AllDigits(After(t, FirstPos(t, ".")))
    /\ Before(t, FirstPos(t, ".")) \o After(t, FirstPos(t, ".")) # <<>>

\* what the three shapes, tried in order, make of the stripped string s
ByShape(s, uncomma) ==
    IF ThousandsShape(s)
    THEN <<NumberOf(ReplaceChar(Before(s, FirstPos(s, ",")), ".", <<>>),
                    After(s, FirstPos(s, ",")))>>
    ELSE IF CommaShape(s)
    THEN <<NumberOf(Before(s, FirstPos(s, ",")), After(s, FirstPos(s, ",")))>>
    ELSE IF PlainNumber(uncomma)
    THEN <<NumberOf(Before(uncomma, FirstPos(uncomma, ".")),
                    After(uncomma, FirstPos(uncomma, ".")))>>
    ELSE <<>>

\* "1.234,50", "14469,00", "1234.50" and "1,234.50" as the claim reads them
ShapeExamples(price_str, ret) ==
    /\ price_str = <<"1", ".", "2", "3", "4", ",", "5", "0">> => ret = <<[n |-> 12345, d |-> 1]>>
    /\ price_str = <<"1", "4", "4", "6", "9", ",", "0", "0">> => ret = <<[n |-> 14469, d |-> 0]>>
    /\ price_str = <<"1", "2", "3", "4", ".", "5", "0">> => ret = <<[n |-> 12345, d |-> 1]>>
    /\ price_str = <<"1", ",", "2", "3", "4", ".", "5", "0">> => ret = <<[n |-> 12345, d |-> 1]>>

\* C18: _parse_price tries three shapes in priority order: dot-as-thousands
\* with an optional comma decimal, then comma-decimal only, then everything
\* else parsed after removing commas; the first shape that matches decides
\* the value, and a string that still is not a number yields None.
C18_ThreeShapesInOrder ==
    Parsed =>
        /\ pure.ret = ByShape(Strip(pure.arg),
                              Strip(ReplaceChar(Strip(pure.arg), ",", <<>>)))
        /\ ShapeExamples(pure.arg, pure.ret)

\* "1.234,50" was read as 1234.5
C18_Witness ==
    /\ Parsed
    /\ pure.arg = <<"1", ".", "2", "3", "4", ",", "5", "0">>
    /\ pure.ret = <<[n |-> 12345, d |-> 1]>>

(***************************************************************************)
(* convert_prices: the two patterns, the search in a span's text and the   *)
(* replacement text.  A match is <<>> (None) or <<m>> with m.start the     *)
(* first position of the match, m.stop the position after its last, and    *)
(* m.cap the first position of the price (group 1 of the symbol pattern,   *)
(* the whole match of the label pattern).                                  *)
(***************************************************************************)
LOWER == <<"a", "b", "c", "d", "e", "f", "g", "h", "i", "j", "k", "l", "m",
           "n", "o", "p", "q", "r", "s", "t", "u", "v", "w", "x", "y", "z">>

UPPER == <<"A", "B", "C", "D", "E", "F", "G", "H", "I", "J", "K", "L", "M",
           "N", "O", "P", "Q", "R", "S", "T", "U", "V", "W", "X", "Y", "Z">>

IsAlpha(c) == \E i \in 1..Len(LOWER) : LOWER[i] = c \/ UPPER[i] = c

\* c.upper()
UpperChar(c) ==
    IF \E i \in 1..Len(LOWER) : LOWER[i] = c
    THEN UPPER[CHOOSE i \in 1..Len(LOWER) : LOWER[i] = c]
    ELSE c

Upper(s) == [i \in 1..Len(s) |-> UpperChar(s[i])]

\* s.isalpha()
IsAlphaStr(s) == s # <<>> /\ \A i \in 1..Len(s) : IsAlpha(s[i])

\* \w
IsWord(c) == IsAlpha(c) \/ IsDigit(c) \/ c = "_"

\* needle in hay
HasSubstring(hay, needle) ==
    \E i \in 0..(Len(hay) - Len(needle)) : SubSeq(hay, i + 1, i + Len(needle)) = needle

\* len(from_currency.strip()) <= 2 and not from_currency.strip().isalpha()
is_symbol(from_currency) ==
    Len(Strip(from_currency)) <= 2 /\ ~IsAlphaStr(Strip(from_currency))

Match(start, stop, cap) == [start |-> start, stop |-> stop, cap |-> cap]

\* \s* from position i: the first position at or after i that holds no blank
RECURSIVE SkipSpaces(_, _)
SkipSpaces(text, i) ==
    IF i <= Len(text) /\ IsSpace(text[i]) THEN SkipSpaces(text, i + 1) ELSE i

\* [\d\s,\.]* from position i, greedy: the position after the run
RECURSIVE PriceRunEnd(_, _)
PriceRunEnd(text, i) ==
    IF i <= Len(text) /\ (IsDigit(text[i]) \/ IsSpace(text[i]) \/ text[i] \in {",", "."})
    THEN PriceRunEnd(text, i + 1)
    ELSE i

\* the symbol pattern matches at position i: the symbol, blanks, a digit
SymbolAt(text, sym, i) ==
    /\ i + Len(sym) - 1 <= Len(text)
    /\ SubSeq(text, i, i + Len(sym) - 1) = sym
    /\ SkipSpaces(text, i + Len(sym)) <= Len(text)
    /\ IsDigit(text[SkipSpaces(text, i + Len(sym))])

SymbolMatchFrom(text, cap, start) == Match(start, PriceRunEnd(text, cap), cap)

\* re.compile(rf'{escaped}\s*([\d][\d\s,\.]*)').search(text)
SymbolSearch(text, sym) ==
    IF \E i \in 1..Len(text) : SymbolAt(text, sym, i)
    THEN << SymbolMatchFrom(text,
                SkipSpaces(text, SetMin({i \in 1..Len(text) : SymbolAt(text, sym, i)})
                                     + Len(sym)),
                SetMin({i \in 1..Len(text) : SymbolAt(text, sym, i)})) >>
    ELSE <<>>

\* \b after a word character that stands at position j - 1
BoundaryAt(text, j) == j > Len(text) \/ ~IsWord(text[j])

\* the label pattern tried at position i, the digits ending before j: the
\* position after the match, 0 if there is none.  The decimal part is taken
\* if a boundary follows it, else the digits alone if a boundary follows them.
LabelStop(text, i, j) ==
    IF ~(i = 1 \/ ~IsWord(text[i - 1])) \/ j - i < 3 THEN 0
    ELSE IF /\ j + 2 <= Len(text) /\ text[j] \in {".", ","}
            /\ IsDigit(text[j + 1]) /\ IsDigit(text[j + 2])
            /\ BoundaryAt(text, j + 3)
    THEN j + 3
    ELSE IF BoundaryAt(text, j) THEN j
    ELSE 0

LabelStopAt(text, i) == LabelStop(text, i, i + DigitRun(text, i))

LabelMatchFrom(text, i) == Match(i, LabelStopAt(text, i), i)

\* re.compile(r'\b(\d{3,}(?:[.,]\d{2})?)\b').search(text)
LabelSearch(text) ==
    IF \E i \in 1..Len(text) : LabelStopAt(text, i) # 0
    THEN << LabelMatchFrom(text, SetMin({i \in 1..Len(text) : LabelStopAt(text, i) # 0})) >>
    ELSE <<>>

\* parsed * multiplier, both decimals
Times(v, m) == Decimal(v.n * m.n, v.d + m.d)

RECURSIVE Pow10(_)
Pow10(d) == IF d = 0 THEN 1 ELSE 10 * Pow10(d - 1)

\* str(n) for n >= 0
RECURSIVE IntDigits(_)
IntDigits(n) ==
    IF n < 10 THEN <<DIGITS[n + 1]>>
    ELSE IntDigits(n \div 10) \o <<DIGITS[(n % 10) + 1]>>

\* the value in hundredths, rounded to the nearest; no sample price times a
\* sample multiplier falls on a tie, where the float's binary value decides
RoundedCents(q, r, half) == IF r > half \/ (r = half /\ q % 2 = 1) THEN q + 1 ELSE q

Cents(v) ==
    IF v.d <= 2 THEN v.n * Pow10(2 - v.d)
    ELSE RoundedCents(v.n \div Pow10(v.d - 2), v.n % Pow10(v.d - 2),
                      5 * Pow10(v.d - 3))

\* the ',' option of the format: a comma before every group of three digits
RECURSIVE Grouped(_)
Grouped(ds) ==
    IF Len(ds) <= 3 THEN ds
    ELSE Grouped(SubSeq(ds, 1, Len(ds) - 3)) \o <<",">> \o SubSeq(ds, Len(ds) - 2, Len(ds))

FormatCents(c) ==
    Grouped(IntDigits(c \div 100))
        \o <<".", DIGITS[((c % 100) \div 10) + 1], DIGITS[(c % 10) + 1]>>

\* f"{new_price:,.2f}"
FormatPrice(v) == FormatCents(Cents(v))

\* text[:m.start()] + f"{to_currency} {new_price_str}" + text[m.end():]
\* a variant of new_text that drops the text after the match
new_textNoTail(text, m, to_currency, new_price_str) ==
    SubSeq(text, 1, m.start - 1) \o to_currency \o <<" ">> \o new_price_str

new_text(text, m, to_currency, new_price_str) ==
    SubSeq(text, 1, m.start - 1) \o to_currency \o <<" ">> \o new_price_str
        \o SubSeq(text, m.stop, Len(text))

(***************************************************************************)
(* convert_prices: documents.  A page is the sequence of its text spans in *)
(* reading order; a span has its text, its bbox <<x0, y0, x1, y1>> in      *)
(* points, its font size and its packed colour.                            *)
(***************************************************************************)
PSpan(text, bbox, size, color) ==
    [text |-> text, bbox |-> bbox, size |-> size, color |-> color]

PriceEuro == PSpan(<<"€", " ", "1", "4", "9", ",", "0", "0">>, <<100, 100, 150, 112>>, 10, 3368601)

PriceSmall == PSpan(<<"€", " ", "5">>, <<100, 120, 120, 132>>, 10, 0)

\* a price the symbol pattern captures as "1 234", which is no number
PriceGap == PSpan(<<"€", " ", "1", " ", "2", "3", "4">>, <<100, 140, 150, 152>>, 10, 0)

Bare1234 == PSpan(<<"1", "2", "3", "4", ".", "5", "0">>, <<200, 100, 240, 112>>, 8, 255)

Bare5 == PSpan(<<"5">>, <<200, 120, 210, 132>>, 8, 0)

\* an article number and a price in one span
TwoTokens ==
    PSpan(<<"1", "2", "3", "4", "5", " ", "1", "2", "3", "4", ".", "5", "0">>,
          <<200, 140, 280, 152>>, 8, 0)

\* two prices with their marker in one span
TwoEuros ==
    PSpan(<<"€", " ", "2", "0", " ", "€", " ", "3", "0">>, <<100, 160, 170, 172>>, 10, 0)

\* a column header that holds the label in lower case
Header == PSpan(<<"P", "r", "i", "c", "e", " ", "e", "u", "r">>, <<200, 80, 250, 92>>, 8, 0)

\* a caption set tight under PriceEuro: the two bboxes overlap
Caption == PSpan(<<"L", "a", "m", "p">>, <<100, 110, 150, 122>>, 10, 0)

SampleSpans ==
    {PriceEuro, PriceSmall, PriceGap, Bare1234, Bare5, TwoTokens, TwoEuros, Header,
     Caption}

\* the most spans on a page of a one-page document
MaxSpans == 2

\* the pages of the two-page documents
PairPages ==
    { <<Bare1234>>, <<Header, Bare1234>>, <<PriceGap, PriceEuro>>, <<PriceEuro>> }

PriceDocs ==
    { <<page>> : page \in SeqsUpTo(SampleSpans, MaxSpans) }
        \cup { <<first, second>> : first \in PairPages, second \in PairPages }

\* from_currency, to_currency and multiplier of a call
Currency(from, to, mult) == [from |-> from, to |-> to, mult |-> mult]

Currencies ==
    { Currency(<<"€">>, <<"$">>, Decimal(2, 0)),
      Currency(<<"E", "U", "R">>, <<"U", "S", "D">>, Decimal(2, 0)) }

\* page.get_text(): the text of the spans, a newline after each
RECURSIVE page_text(_)
page_text(page) ==
    IF page = <<>> THEN <<>>
    ELSE Head(page).text \o <<"\n">> \o page_text(Tail(page))

\* span.get("text", ""): the span dictionaries of get_text("dict") hold the
\* key "text"; PyMuPDF documents that those of get_text("rawdict") hold the
\* key "chars" in its place.  raw_text tells whether the key is there.
SpanText(span, raw_text) == IF raw_text THEN span.text ELSE <<>>

\* ((c >> 16 & 255) / 255, (c >> 8 & 255) / 255, (c & 255) / 255), as the
\* three numerators
Rgb(c) == <<(c \div 65536) % 256, (c \div 256) % 256, c % 256>>

\* pattern.search(text)
Search(text, cur) ==
    IF is_symbol(cur.from) THEN SymbolSearch(text, Strip(cur.from))
    ELSE LabelSearch(text)

\* parsed < 10
BelowTen(v) == v.n < 10 * Pow10(v.d)

\* (bbox, new_text, font_size, rgb), and the span it came from
Redaction(i, span, new) ==
    [span |-> i, bbox |-> span.bbox, new_text |-> new, font_size |-> span.size,
     rgb |-> Rgb(span.color)]

\* a variant of Rewritten that does not skip a span whose price is no number:
\* it redacts the span and writes its text again
RewrittenUnparsed(i, span, text, m, parsed, cur) ==
    IF parsed = <<>> THEN << Redaction(i, span, text) >>
    ELSE IF BelowTen(parsed[1]) THEN <<>>
    ELSE << Redaction(i, span,
                      new_text(text, m, cur.to,
                               FormatPrice(Times(parsed[1], cur.mult)))) >>

\* the body of the span loop: <<>> if the span is skipped
Rewritten(i, span, text, m, parsed, cur) ==
    IF parsed = <<>> THEN <<>>
    ELSE IF BelowTen(parsed[1]) THEN <<>>
    ELSE << Redaction(i, span,
                      new_text(text, m, cur.to,
                               FormatPrice(Times(parsed[1], cur.mult)))) >>

Matched(i, span, text, m, cur) ==
    IF m = <<>> THEN <<>>
    ELSE Rewritten(i, span, text, m[1],
                   _parse_price(SubSeq(text, m[1].cap, m[1].stop - 1)), cur)

RECURSIVE ScanSpans(_, _, _, _)
ScanSpans(page, i, raw_text, cur) ==
    IF i > Len(page) THEN <<>>
    ELSE Matched(i, page[i], SpanText(page[i], raw_text),
                 Search(SpanText(page[i], raw_text), cur), cur)
         \o ScanSpans(page, i + 1, raw_text, cur)

\* a variant of PageSkipped that skips no page
PageSkippedNever(page, cur) == FALSE

\* not is_symbol and from_currency.upper() not in page_text.upper()
PageSkipped(page, cur) ==
    ~is_symbol(cur.from) /\ ~HasSubstring(Upper(page_text(page)), Upper(cur.from))

\* two bboxes share some area
Intersects(a, b) == a[1] < b[3] /\ b[1] < a[3] /\ a[2] < b[4] /\ b[2] < a[4]

\* page.apply_redactions: the text under a redaction rectangle is removed;
\* the spans that lose text are those whose bbox meets one of the rectangles
Redacted(page, redactions) ==
    { i \in 1..Len(page) :
          \E r \in 1..Len(redactions) : Intersects(page[i].bbox, redactions[r].bbox) }

\* page.insert_text((bbox.x0, bbox.y0 + font_size * 0.85), new_text, ...):
\* the point is kept in hundredths of a point
Inserted(r) ==
    [text |-> r.new_text,
     at   |-> <<100 * r.bbox[1], 100 * r.bbox[2] + 85 * r.font_size>>,
     fontsize |-> r.font_size, color |-> r.rgb]

Untouched == [gone |-> {}, inserted |-> <<>>]

Event(op, page, span) == [op |-> op, page |-> page, span |-> span]

(***************************************************************************)
(* convert_prices: the program.  One call runs from prices.at = "none" to  *)
(* prices.at = "saved", page by page.                                      *)
(***************************************************************************)
ConvertStart(doc, cur, raw_text) ==
    /\ pc = "idle" /\ prices.at = "none"
    /\ prices' = [at |-> "page", cur |-> cur, raw_text |-> raw_text, doc |-> doc,
                  p |-> 1, redactions |-> <<>>, k |-> 0,
                  out |-> [i \in 1..Len(doc) |-> Untouched], log |-> <<>>]
    /\ pc' = "convert"
    /\ UNCHANGED <<_working_model, open_docs, call, http, strat, reply, result,
                   loc_page, loc_rects, pure>>

\* for page in doc: the label test and the span loop
ConvertPage ==
    /\ pc = "convert" /\ prices.at = "page" /\ prices.p <= Len(prices.doc)
    /\ IF PageSkipped(prices.doc[prices.p], prices.cur)
       THEN prices' = [prices EXCEPT !.p = @ + 1]
       ELSE prices' = [prices EXCEPT
                          !.at = "redact", !.k = 1,
                          !.redactions = ScanSpans(prices.doc[prices.p], 1,
                                                   prices.raw_text, prices.cur)]
    /\ UNCHANGED <<_working_model, open_docs, pc, call, http, strat, reply, result,
                   loc_page, loc_rects, pure>>

\* page.add_redact_annot(bbox, fill=(1, 1, 1))
AddRedactAnnot ==
    /\ pc = "convert" /\ prices.at = "redact" /\ prices.k <= Len(prices.redactions)
    /\ prices' = [prices EXCEPT
                     !.k = @ + 1,
                     !.log = Append(@, Event("redact", prices.p,
                                             prices.redactions[prices.k].span))]
    /\ UNCHANGED <<_working_model, open_docs, pc, call, http, strat, reply, result,
                   loc_page, loc_rects, pure>>

\* page.apply_redactions(images=fitz.PDF_REDACT_IMAGE_NONE)
ApplyRedactions ==
    /\ pc = "convert" /\ prices.at = "redact" /\ prices.k > Len(prices.redactions)
    /\ prices' = [prices EXCEPT
                     !.at = "insert", !.k = 1,
                     !.out[prices.p].gone = Redacted(prices.doc[prices.p],
                                                     prices.redactions),
                     !.log = Append(@, Event("apply", prices.p, 0))]
    /\ UNCHANGED <<_working_model, open_docs, pc, call, http, strat, reply, result,
                   loc_page, loc_rects, pure>>

\* page.insert_text(...)
InsertText ==
    /\ pc = "convert" /\ prices.at = "insert" /\ prices.k <= Len(prices.redactions)
    /\ prices' = [prices EXCEPT
                     !.k = @ + 1,
                     !.out[prices.p].inserted =
                         Append(@, Inserted(prices.redactions[prices.k])),
                     !.log = Append(@, Event("insert", prices.p,
                                             prices.redactions[prices.k].span))]
    /\ UNCHANGED <<_working_model, open_docs, pc, call, http, strat, reply, result,
                   loc_page, loc_rects, pure>>

\* a variant of PageDone that runs the redactions of a page a second time,
\* after its insertions
PageDoneRedactAgain ==
    /\ pc = "convert" /\ prices.at = "insert" /\ prices.k > Len(prices.redactions)
    /\ IF /\ prices.redactions # <<>>
          /\ Cardinality({i \in 1..Len(prices.log) :
                              prices.log[i] = Event("apply", prices.p, 0)}) < 2
       THEN prices' = [prices EXCEPT !.at = "redact", !.k = 1]
       ELSE prices' = [prices EXCEPT !.at = "page", !.p = @ + 1,
                                     !.redactions = <<>>, !.k = 0]
    /\ UNCHANGED <<_working_model, open_docs, pc, call, http, strat, reply, result,
                   loc_page, loc_rects, pure>>

\* the page is done: on to the next one
PageDone ==
    /\ pc = "convert" /\ prices.at = "insert" /\ prices.k > Len(prices.redactions)
    /\ prices' = [prices EXCEPT !.at = "page", !.p = @ + 1,
                                !.redactions = <<>>, !.k = 0]
    /\ UNCHANGED <<_working_model, open_docs, pc, call, http, strat, reply, result,
                   loc_page, loc_rects, pure>>

\* doc.save(buf, garbage=4, deflate=True); doc.close(); return buf.getvalue()
ConvertSave ==
    /\ pc = "convert" /\ prices.at = "page" /\ prices.p > Len(prices.doc)
    /\ prices' = [prices EXCEPT !.at = "saved"]
    /\ pc' = "idle"
    /\ UNCHANGED <<_working_model, open_docs, call, http, strat, reply, result,
                   loc_page, loc_rects, pure>>

PricesNext ==
    \/ \E doc \in PriceDocs, cur \in Currencies, raw_text \in BOOLEAN :
           ConvertStart(doc, cur, raw_text)
    \/ ConvertPage
    \/ AddRedactAnnot
    \/ ApplyRedactions
    \/ InsertText
    \/ PageDone
    \/ ConvertSave

SpecPrices == Init /\ [][PricesNext]_vars


(***************************************************************************)
(* Properties of SpecPrices                                                *)
(***************************************************************************)
\* the positions of the log
Logged == 1..Len(prices.log)

\* the events of one kind on one page
EventsOn(op, page) ==
    {i \in Logged : prices.log[i].op = op /\ prices.log[i].page = page}

\* C15: on each page all redactions are made and applied in one batch before
\* the first insertion of that page: in the order of the calls no insertion
\* on a page is followed by a redaction (add_redact_annot or
\* apply_redactions) on the same page, and a page's redactions are applied
\* once.
C15_RedactionsBeforeInsertions ==
    /\ \A i \in Logged, j \in Logged :
           (/\ i < j
            /\ prices.log[i].page = prices.log[j].page
            /\ prices.log[i].op = "insert")
               => prices.log[j].op = "insert"
    /\ \A page \in 1..Len(prices.doc) : Cardinality(EventsOn("apply", page)) <= 1

\* a finished call with a page on which two spans were redacted and two
\* replacements inserted
C15_Witness ==
    /\ prices.at = "saved"
    /\ \E page \in 1..Len(prices.doc) :
           /\ Cardinality(EventsOn("redact", page)) = 2
           /\ Cardinality(EventsOn("insert", page)) = 2

\* a call was made
Converting == prices.at # "none"

LabelMode == Converting /\ \E c \in 1..Len(prices.cur.from) : IsAlpha(prices.cur.from[c])

\* the label stands at position j of the text, letter case apart
LabelAt(text, label, j) ==
    /\ j + Len(label) - 1 <= Len(text)
    /\ \A c \in 1..Len(label) : UpperChar(text[j + c - 1]) = UpperChar(label[c])

\* the text of the page's spans does not hold the label
LacksLabel(page, label) ==
    \A i \in 1..Len(page) : \A j \in 1..Len(page[i].text) : ~LabelAt(page[i].text, label, j)

\* some span of the page holds a number the label pattern matches
HoldsNumber(page) == \E i \in 1..Len(page) : LabelSearch(page[i].text) # <<>>

\* nothing was done to the page
PageUnchanged(page) ==
    /\ prices.out[page] = Untouched
    /\ \A i \in Logged : prices.log[i].page # page

\* C16: in label mode a page whose text does not hold the label, letter case
\* apart, is left unchanged (no redaction, no insertion), also when it holds
\* numbers that match the price pattern.
C16_PageWithoutLabelUnchanged ==
    LabelMode =>
        \A page \in 1..Len(prices.doc) :
            LacksLabel(prices.doc[page], prices.cur.from) => PageUnchanged(page)

\* a finished label-mode call on a two-page document: the first page holds a
\* number and not the label, the second holds the label and was rewritten
C16_Witness ==
    /\ LabelMode /\ prices.at = "saved" /\ Len(prices.doc) = 2
    /\ LacksLabel(prices.doc[1], prices.cur.from) /\ HoldsNumber(prices.doc[1])
    /\ PageUnchanged(1)
    /\ ~LacksLabel(prices.doc[2], prices.cur.from)
    /\ prices.out[2].inserted # <<>>

Saved == prices.at = "saved"

\* the spans of a page, by number
SpansOf(page) == 1..Len(prices.doc[page])

\* the insert_text calls of a page, in their order
InsertEvents(page) ==
    SelectSeq(prices.log, LAMBDA e : e.op = "insert" /\ e.page = page)

\* what was inserted for span i of the page
InsertedForIn(page, i, events) ==
    { prices.out[page].inserted[k] : k \in {k \in 1..Len(events) : events[k].span = i} }

InsertedFor(page, i) == InsertedForIn(page, i, InsertEvents(page))

\* span i of the page was neither redacted nor written again
SpanSkipped(page, i) ==
    \A e \in Logged : ~(prices.log[e].page = page /\ prices.log[e].span = i)

\* the token stands in the text between blanks or the ends of the text
TokenAt(text, token, j) ==
    /\ j + Len(token) - 1 <= Len(text)
    /\ SubSeq(text, j, j + Len(token) - 1) = token
    /\ (j = 1 \/ text[j - 1] = " ")
    /\ (j + Len(token) > Len(text) \/ text[j + Len(token)] = " ")

HoldsToken(text, token) == \E j \in 1..Len(text) : TokenAt(text, token, j)

\* the text holds the characters of part in a row
Holds(text, part) ==
    \E j \in 1..Len(text) :
        j + Len(part) - 1 <= Len(text) /\ SubSeq(text, j, j + Len(part) - 1) = part

\* the value of the price the pattern finds in the text: <<>> if there is no
\* match or the match is no number
MatchedValue(text, m) ==
    IF m = <<>> THEN <<>> ELSE _parse_price(SubSeq(text, m[1].cap, m[1].stop - 1))

ValueBelowTen(value) == value # <<>> /\ value[1].n < 10 * Pow10(value[1].d)

\* no span whose price is below 10 is rewritten
NeverRewritesBelowTen ==
    Saved =>
        \A page \in 1..Len(prices.doc) : \A i \in SpansOf(page) :
            ValueBelowTen(MatchedValue(prices.doc[page][i].text,
                                       Search(prices.doc[page][i].text, prices.cur)))
                => SpanSkipped(page, i)

Token1234 == <<"1", "2", "3", "4", ".", "5", "0">>

\* 1234.50 times 2, formatted
Twice1234 == <<"2", ",", "4", "6", "9", ".", "0", "0">>

\* in label mode, on a page that holds the label, a span with the token
\* 1234.50 is written again with the converted price in place of the token
Rewrites1234 ==
    (Saved /\ LabelMode) =>
        \A page \in 1..Len(prices.doc) : \A i \in SpansOf(page) :
            (/\ ~LacksLabel(prices.doc[page], prices.cur.from)
             /\ HoldsToken(prices.doc[page][i].text, Token1234))
                => \E ins \in InsertedFor(page, i) :
                       Holds(ins.text, Twice1234) /\ ~HoldsToken(ins.text, Token1234)

\* C17: convert_prices never rewrites a token whose value is below 10, in
\* symbol mode and in label mode alike, and it rewrites a label-mode token
\* 1234.50 on a page that holds the label.
C17_RejectsBelowTenRewrites1234 == NeverRewritesBelowTen /\ Rewrites1234

\* the call of the example: from "€", multiplier 2, to "$"
EuroToDollarTwice ==
    Converting /\ prices.cur = Currency(<<"€">>, <<"$">>, Decimal(2, 0))

Euro149 == <<"€", " ", "1", "4", "9", ",", "0", "0">>

Dollar298 == <<"$", " ", "2", "9", "8", ".", "0", "0">>

\* the inserted text starts at the left edge of the span's bbox, on a base
\* line inside the bbox, in the span's size and colour
AtSpan(ins, span) ==
    /\ ins.at[1] = 100 * span.bbox[1]
    /\ ins.at[2] >= 100 * span.bbox[2] /\ ins.at[2] <= 100 * span.bbox[4]
    /\ ins.fontsize = span.size
    /\ ins.color = Rgb(span.color)

\* the span "€ 149,00" is written again as "$ 298.00" where it stood
Yields298(page, i) ==
    \E ins \in InsertedFor(page, i) :
        ins.text = Dollar298 /\ AtSpan(ins, prices.doc[page][i])

\* a span without a price keeps its text and gets none
OtherSpansKept(page) ==
    \A j \in SpansOf(page) :
        Search(prices.doc[page][j].text, prices.cur) = <<>>
            => (j \notin prices.out[page].gone /\ SpanSkipped(page, j))

\* C19: with from "€", multiplier 2 and to "$" a span "€ 149,00" yields the
\* text "$ 298.00" (thousands separators, 2 decimals), inserted at the
\* span's place in its font size and colour, and no other span of the page
\* is changed.
C19_Euro149YieldsDollar298 ==
    (Saved /\ EuroToDollarTwice) =>
        \A page \in 1..Len(prices.doc) : \A i \in SpansOf(page) :
            prices.doc[page][i].text = Euro149
                => (Yields298(page, i) /\ OtherSpansKept(page))

\* the pattern matches in the text and the match is no number
UnparsableText(text, m) == m # <<>> /\ MatchedValue(text, m) = <<>>

\* the match is a number, 10 or more
PricedText(text, m) ==
    /\ MatchedValue(text, m) # <<>>
    /\ ~ValueBelowTen(MatchedValue(text, m))

\* the text the span loop reads for span i of the page
TextOf(page, i) == SpanText(prices.doc[page][i], prices.raw_text)

Unparsable(page, i) ==
    UnparsableText(TextOf(page, i), Search(TextOf(page, i), prices.cur))

Priced(page, i) ==
    PricedText(TextOf(page, i), Search(TextOf(page, i), prices.cur))


\* the page loop is past the page and every price of the page was inserted
PageProcessed(page) ==
    prices.p > page =>
        \A j \in SpansOf(page) : Priced(page, j) => InsertedFor(page, j) # {}

\* C20: when the matched price of a span is no number, convert_prices skips
\* that span and no more (no redaction and no insertion for it), goes on
\* with the other spans of the page and with the later pages: nothing is
\* raised, _parse_price returns None and the span loop continues.
C20_UnparsableSpanSkipped ==
    Converting =>
        \A page \in 1..Len(prices.doc) : \A i \in SpansOf(page) :
            Unparsable(page, i)
                => /\ SpanSkipped(page, i)
                   /\ \A later \in page..Len(prices.doc) : PageProcessed(later)

\* a finished call on two pages: the first holds a span with an unparsable
\* price, which was skipped, and a price that was rewritten; the price of
\* the second page was rewritten too
C20_Witness ==
    /\ Saved /\ Len(prices.doc) = 2
    /\ \E i \in SpansOf(1), j \in SpansOf(1) :
           /\ Unparsable(1, i) /\ SpanSkipped(1, i)
           /\ Priced(1, j) /\ InsertedFor(1, j) # {}
    /\ \E j \in SpansOf(2) : Priced(2, j) /\ InsertedFor(2, j) # {}

(***************************************************************************)
(* The trimmer specification: _trim_whitespace and _trim_whitespace_dim    *)
(* as pure functions of an image and a threshold, applied to a region and  *)
(* then to the region they returned.                                       *)
(***************************************************************************)
TrimKinds == {"boxes", "blank", "photo", "twozone", "tiny", "speck"}

\* the regions handed to a trimmer: windows onto the sample bitmaps
TrimWindows ==
    { w \in ({0, 8} \X {0, 8, 60}) \X ({48, PxW} \X {64, PxH}) : w[1][2] < w[2][2] }

TrimImages ==
    { Image(k, w[1][1], w[1][2], w[2][1], w[2][2]) : k \in TrimKinds, w \in TrimWindows }

Trimmers == {"_trim_whitespace", "_trim_whitespace_dim"}

\* the thresholds of the two signatures
Thresholds == {ILLUS_THRESHOLD, DIM_THRESHOLD}

TrimArg(img, threshold) == [img |-> img, threshold |-> threshold]

Trim(name, img, threshold) ==
    IF name = "_trim_whitespace" THEN _trim_whitespace(img, threshold)
    ELSE _trim_whitespace_dim(img, threshold)

TrimInit ==
    /\ _working_model = NoModel
    /\ open_docs = 0
    /\ pc = "trim"
    /\ call = Idle
    /\ http = NoHttp
    /\ strat = NoStrat
    /\ reply = NoReply
    /\ result = NoResult
    /\ loc_page = VectorPage(<<>>, <<>>)
    /\ loc_rects = <<>>
    /\ \E name \in Trimmers, img \in TrimImages, threshold \in Thresholds :
           pure = [name |-> name, arg |-> TrimArg(img, threshold), ret |-> <<>>]
    /\ prices = NoPrices

\* the trimmer is called on the region
TrimOnce ==
    /\ pc = "trim"
    /\ pure' = [pure EXCEPT
                   !.ret = << Trim(pure.name, pure.arg.img, pure.arg.threshold) >>]
    /\ pc' = "trimmed"
    /\ UNCHANGED <<_working_model, open_docs, call, http, strat, reply, result,
                   loc_page, loc_rects, prices>>

\* the trimmer is called on the region it returned
TrimAgain ==
    /\ pc = "trimmed" /\ pure.ret[1] # <<>>
    /\ pure' = [pure EXCEPT
                   !.ret = Append(@, Trim(pure.name, pure.ret[1][1], pure.arg.threshold))]
    /\ pc' = "retrimmed"
    /\ UNCHANGED <<_working_model, open_docs, call, http, strat, reply, result,
                   loc_page, loc_rects, prices>>

TrimNext == TrimOnce \/ TrimAgain

SpecTrim == TrimInit /\ [][TrimNext]_vars

(***************************************************************************)
(* Properties of SpecTrim                                                  *)
(***************************************************************************)
Retrimmed == pc = "retrimmed"

\* the second call gave back the region it was given
FixedPoint == pure.ret[2] = pure.ret[1]

DimIdempotent == (Retrimmed /\ pure.name = "_trim_whitespace_dim") => FixedPoint

\* C21: trimming is idempotent for both trimmer variants: _trim_whitespace
\* or _trim_whitespace_dim, applied with the same threshold to a region it
\* has returned, gives back the same region.
C21_TrimIdempotent == Retrimmed => FixedPoint

\* the regions the trimmer has returned so far
Returns == {pure.ret[n][1] : n \in {n \in 1..Len(pure.ret) : pure.ret[n] # <<>>}}

LargerThan20(img) == ImgW(img) > 20 /\ ImgH(img) > 20

DimNoSliver ==
    (pc \in {"trimmed", "retrimmed"} /\ pure.name = "_trim_whitespace_dim")
        => \A img \in Returns : LargerThan20(img)

\* C22: neither trimmer variant returns a noise sliver: a trimmed region
\* that is not larger than 20 px in both width and height is rejected (None
\* is returned) by _trim_whitespace and by _trim_whitespace_dim.
C22_NoSliverReturned ==
    pc \in {"trimmed", "retrimmed"} => \A img \in Returns : LargerThan20(img)

(***************************************************************************)
(* The extension specification: _extend_crop_to_content as a pure function *)
(* of the page bitmap and a box inside it.                                 *)
(***************************************************************************)
ExtendKinds == {"boxes", "twozone", "bands", "gaps", "blank"}

\* boxes with 0 <= x0 < x1 <= px_w and 0 <= y0 < y1 <= px_h
ExtendBoxes ==
    { b \in ({0, 12, 40} \X {5, 25, 40, 56, 80, 114}) \X ({36, 63, PxW} \X {51, 90, 115, PxH}) :
          b[1][1] < b[2][1] /\ b[1][2] < b[2][2] }

ExtendArg(k, b) ==
    [full |-> Image(k, 0, 0, PxW, PxH),
     x0 |-> b[1][1], y0 |-> b[1][2], x1 |-> b[2][1], y1 |-> b[2][2],
     px_w |-> PxW, px_h |-> PxH]

\* the returned box, and new_y0 as it stood before the padding
Extended(a) ==
    [top |-> new_y0(a.full, a.x0, a.y0, a.x1, a.y1, a.px_w),
     box |-> _extend_crop_to_content(a.full, a.x0, a.y0, a.x1, a.y1, a.px_w, a.px_h)]

ExtendInit ==
    /\ _working_model = NoModel
    /\ open_docs = 0
    /\ pc = "extend"
    /\ call = Idle
    /\ http = NoHttp
    /\ strat = NoStrat
    /\ reply = NoReply
    /\ result = NoResult
    /\ loc_page = VectorPage(<<>>, <<>>)
    /\ loc_rects = <<>>
    /\ \E k \in ExtendKinds, b \in ExtendBoxes :
           pure = [name |-> "_extend_crop_to_content", arg |-> ExtendArg(k, b),
                   ret |-> <<>>]
    /\ prices = NoPrices

ExtendCrop ==
    /\ pc = "extend"
    /\ pure' = [pure EXCEPT !.ret = Extended(pure.arg)]
    /\ pc' = "extended"
    /\ UNCHANGED <<_working_model, open_docs, call, http, strat, reply, result,
                   loc_page, loc_rects, prices>>

ExtendNext == ExtendCrop

SpecExtend == ExtendInit /\ [][ExtendNext]_vars

(***************************************************************************)
(* Properties of SpecExtend                                                *)
(***************************************************************************)
ExtendDone == pc = "extended"

\* int(0.8 * (y1 - y0))
MaxExtend(a) == ((a.y1 - a.y0) * 8) \div 10

\* C23: the upward scan never moves the top edge more than
\* int(0.8 * (y1 - y0)) rows above the input y0, whatever the page holds;
\* only the fixed pad of 10 px is added on top of that, and the top edge
\* never goes above row 0.
C23_UpwardScanCapped ==
    ExtendDone =>
        /\ pure.ret.top <= pure.arg.y0
        /\ pure.ret.top >= pure.arg.y0 - MaxExtend(pure.arg)
        /\ pure.ret.box.y0 = Max(0, pure.ret.top - 10)
        /\ pure.ret.box.y0 >= 0

\* the scan went up as far as the cap lets it, on a page with content all
\* the way, and the padded edge is still inside the page
C23_Witness ==
    /\ ExtendDone
    /\ MaxExtend(pure.arg) > 0
    /\ pure.ret.top = pure.arg.y0 - MaxExtend(pure.arg)
    /\ pure.ret.top > 10
    /\ pure.ret.box.y0 = pure.ret.top - 10

\* 0 <= x0 < x1 <= px_w and 0 <= y0 < y1 <= px_h
BoxInBitmap(a) ==
    /\ 0 <= a.x0 /\ a.x0 < a.x1 /\ a.x1 <= a.px_w
    /\ 0 <= a.y0 /\ a.y0 < a.y1 /\ a.y1 <= a.px_h

\* the sides are moved out by 10 px, as far as the bitmap goes; the top edge
\* by 10 px from where the scan left it
PaddedBy10(a, box) ==
    /\ box.x0 = Max(0, a.x0 - 10) /\ box.x1 = Min(a.px_w, a.x1 + 10)
    /\ box.y1 = Min(a.px_h, a.y1 + 10)
    /\ box.y0 <= Max(0, a.y0 - 10)

\* C24: for an input box with 0 <= x0 < x1 <= px_w and 0 <= y0 < y1 <= px_h
\* the returned box contains the input box, is padded by 10 px on each side
\* (clamped to the bitmap), lies inside [0, px_w] x [0, px_h], and has
\* x0 < x1 and y0 < y1.
C24_ExtendedBoxWellFormed ==
    (ExtendDone /\ BoxInBitmap(pure.arg)) =>
        /\ pure.ret.box.x0 <= pure.arg.x0 /\ pure.arg.x1 <= pure.ret.box.x1
        /\ pure.ret.box.y0 <= pure.arg.y0 /\ pure.arg.y1 <= pure.ret.box.y1
        /\ PaddedBy10(pure.arg, pure.ret.box)
        /\ 0 <= pure.ret.box.x0 /\ pure.ret.box.x1 <= pure.arg.px_w
        /\ 0 <= pure.ret.box.y0 /\ pure.ret.box.y1 <= pure.arg.px_h
        /\ pure.ret.box.x0 < pure.ret.box.x1
        /\ pure.ret.box.y0 < pure.ret.box.y1

\* a box at the left and bottom edges of the bitmap: the pad is clamped
\* there and is a full 10 px on the right and, above the scanned rows, on top
C24_Witness ==
    /\ ExtendDone /\ BoxInBitmap(pure.arg)
    /\ pure.arg.x0 = 0 /\ pure.ret.box.x0 = 0
    /\ pure.arg.y1 = pure.arg.px_h /\ pure.ret.box.y1 = pure.arg.px_h
    /\ pure.ret.box.x1 = pure.arg.x1 + 10
    /\ pure.ret.top < pure.arg.y0
    /\ pure.ret.box.y0 = pure.ret.top - 10

\* the columns and the upper limit of the scan
ScanX0(a) == Max(0, a.x0 - (a.x1 - a.x0) \div 10)

ScanX1(a) == Min(a.px_w, a.x1 + (a.x1 - a.x0) \div 10)

ScanTop(a) == Max(0, a.y0 - MaxExtend(a))

\* row y has dark content over the scanned columns
Content(a, y) == RowHasContent(a.full, y, ScanX0(a), ScanX1(a))

\* some row among the 25 rows above row y, inside the scan limit, has content
ContentAbove(a, y) ==
    \E n \in 1..25 : y - n >= ScanTop(a) /\ Content(a, y - n)

\* every blank row the scan went past had content within 25 rows above it
GapsBridged(a, top) ==
    \A y \in (top + 1)..(a.y0 - 1) : Content(a, y) \/ ContentAbove(a, y)

\* the scan stopped at the limit, or at a blank row with no content within
\* 25 rows above it
StoppedAtGap(a, top) ==
    top > ScanTop(a) => (~Content(a, top - 1) /\ ~ContentAbove(a, top - 1))

\* C25: the upward scan bridges a run of at most 25 consecutive blank rows:
\* at a blank row it continues only if some row among the next 25 rows above
\* it (inside the scan limit) has dark content, otherwise it stops; the top
\* edge it reports before padding is the original y0 or a row that has dark
\* content, never a blank row inside a gap.
C25_BridgesGapsUpTo25 ==
    ExtendDone =>
        /\ GapsBridged(pure.arg, pure.ret.top)
        /\ StoppedAtGap(pure.arg, pure.ret.top)
        /\ (pure.ret.top = pure.arg.y0 \/ Content(pure.arg, pure.ret.top))

\* the page with a blank band of 25 rows (rows 10 to 34): the scan from row 40
\* went over the band and on to row 0
C25_Witness ==
    /\ ExtendDone /\ pure.arg.full.k = "gaps"
    /\ pure.arg.y0 = 40 /\ pure.arg.y1 = PxH
    /\ ~Content(pure.arg, 34) /\ ~Content(pure.arg, 10) /\ Content(pure.arg, 9)
    /\ pure.ret.top = 0

(***************************************************************************)
(* The model-selection specification: a sequence of _call_best calls, each *)
(* with its _call calls and their requests.  http is the position inside   *)
(* _call_best as in Spec; pure.ret keeps what was seen: the replies of the *)
(* running _call (posts), the _call that returned last (last), the models  *)
(* called by the running _call_best (tried, with the error of each), the   *)
(* models whose _call returned without error so far (ok), the model cached *)
(* when the running _call_best began (cached) and what it returned (out).  *)
(***************************************************************************)
\* the most _call_best calls in a run
MaxBestCalls == 2

\* the prompts _call_best is called with
Prompts == {"PROMPT", "DIM_BOX_PROMPT"}

Seen(n, posts, last, tried, ok, cached, out) ==
    [n |-> n, posts |-> posts, last |-> last, tried |-> tried, ok |-> ok,
     cached |-> cached, out |-> out]

BestInit ==
    /\ _working_model = NoModel
    /\ open_docs = 0
    /\ pc = "best-idle"
    /\ call = Idle
    /\ http = NoHttp
    /\ strat = NoStrat
    /\ reply = NoReply
    /\ result = NoResult
    /\ loc_page = VectorPage(<<>>, <<>>)
    /\ loc_rects = <<>>
    /\ pure = [name |-> "_call_best", arg |-> "",
               ret |-> Seen(0, <<>>, <<>>, <<>>, {}, NoModel, <<>>)]
    /\ prices = NoPrices

\* _call_best is called: with the cached model first, if there is one
BestStart(prompt) ==
    /\ pc = "best-idle" /\ pure.ret.n < MaxBestCalls
    /\ pc' = "best-call"
    /\ http' = IF _working_model # NoModel
               THEN [phase |-> "cached", cand |-> 0, attempt |-> 0]
               ELSE [phase |-> "cand", cand |-> 1, attempt |-> 0]
    /\ pure' = [pure EXCEPT !.arg = prompt,
                            !.ret = Seen(pure.ret.n + 1, <<>>, <<>>, <<>>,
                                         pure.ret.ok, _working_model, <<>>)]
    /\ UNCHANGED <<_working_model, open_docs, call, strat, reply, result,
                   loc_page, loc_rects, prices>>

\* the model the running _call was given
ModelCalled == IF http.phase = "cached" THEN _working_model ELSE CANDIDATES[http.cand]

\* a _call that has returned: its model, the replies it met, what it returned
CallReturned(model, posts, c) == [model |-> model, posts |-> posts, ret |-> c]

\* the rest of _call and of _call_best after a reply, with c what _call
\* decided and b what _call_best does next
BestAfter(r, c, b) ==
    IF ~c.done
    THEN /\ http' = [http EXCEPT !.attempt = @ + 1]
         /\ pure' = [pure EXCEPT !.ret.posts = Append(@, r.status)]
         /\ UNCHANGED <<_working_model, pc>>
    ELSE /\ pure' = [pure EXCEPT
                        !.ret.posts = <<>>,
                        !.ret.last = << CallReturned(ModelCalled,
                                                     Append(pure.ret.posts, r.status), c) >>,
                        !.ret.tried = Append(@, [model |-> ModelCalled, err |-> c.err]),
                        !.ret.ok = IF c.err = "" THEN @ \cup {ModelCalled} ELSE @,
                        !.ret.out = IF b.next = "return"
                                    THEN << [text |-> b.text, err |-> b.err] >>
                                    ELSE <<>>]
         /\ IF b.next = "return"
            THEN /\ _working_model' = b.model
                 /\ http' = NoHttp
                 /\ pc' = "best-idle"
            ELSE /\ http' = [phase |-> b.next, cand |-> b.cand, attempt |-> 0]
                 /\ UNCHANGED <<_working_model, pc>>

\* one requests.post of _call and what follows it without another request
BestPost(r) ==
    /\ pc = "best-call"
    /\ BestAfter(r, _call(http.attempt, r),
                 _call_best(http.phase, http.cand, _call(http.attempt, r),
                            _working_model))
    /\ UNCHANGED <<open_docs, call, strat, reply, result, loc_page, loc_rects, prices>>

BestNext ==
    \/ \E prompt \in Prompts : BestStart(prompt)
    \/ \E r \in Replies : BestPost(r)

SpecBest == BestInit /\ [][BestNext]_vars

(***************************************************************************)
(* Properties of SpecBest                                                  *)
(***************************************************************************)
\* a _call has returned in the running or the last _call_best
CallDone == pc \in {"best-call", "best-idle"} /\ pure.ret.last # <<>>

LastPosts == pure.ret.last[1].posts

LastReply == LastPosts[Len(LastPosts)]

LastRet == pure.ret.last[1].ret

\* replies with the status code 200
Is200(status) == status \in {"200", "200-malformed"}

\* at most 4 requests, each but the last answered with a 429
AtMostFourRequests(posts) ==
    /\ Len(posts) <= 4
    /\ \A i \in 1..(Len(posts) - 1) : posts[i] = "429"

\* four 429 replies end the call with the error of line 163
RateLimitedAfterFour ==
    LastReply = "429" =>
        (Len(LastPosts) = 4 /\ LastRet.err = "Rate limited after retries")

\* C26 as stated: _call ends after at most 4 requests; it asks again only
\* after a 429, returns (text, "") on the first 200 reply, returns an error
\* at once on any other status or on any request exception, and returns
\* "Rate limited after retries" after four 429 replies in a row.
C26_CallEndsWithinFourRequests ==
    /\ (pc = "best-call" => AtMostFourRequests(pure.ret.posts))
    /\ CallDone =>
           /\ AtMostFourRequests(LastPosts)
           /\ Is200(LastReply) => LastRet.err = ""
           /\ (~Is200(LastReply) /\ LastReply # "429") => LastRet.err # ""
           /\ RateLimitedAfterFour

\* C26, amended: a 200 reply gives (content, "") if its body holds the
\* content, and the error ("", str(ex)) if reading the body raises; another
\* status than 200 and 429 gives the error "HTTP ..."; an exception of the
\* request gives ("", str(ex)), whose text may be empty.
C26_CallEndsWithinFourRequestsAmended ==
    /\ (pc = "best-call" => AtMostFourRequests(pure.ret.posts))
    /\ CallDone =>
           /\ AtMostFourRequests(LastPosts)
           /\ LastReply = "200" => LastRet.err = ""
           /\ LastReply = "200-malformed" => LastRet = Called(TRUE, EmptyText, "exception")
           /\ LastReply = "500" => LastRet = Called(TRUE, EmptyText, "HTTP")
           /\ LastReply = "exception" => LastRet = Called(TRUE, EmptyText, "exception")
           /\ LastReply = "exception-nomsg" => LastRet = Called(TRUE, EmptyText, "")
           /\ RateLimitedAfterFour

\* a _call that met three 429 replies and then a 200 with a text, and
\* returned the text without error
C26_Witness ==
    /\ CallDone
    /\ LastPosts = <<"429", "429", "429", "200">>
    /\ LastRet.err = "" /\ LastRet.text.kind = "str"

(***************************************************************************)
(* _normalize_code and _dedup.  A product is the dictionary the extractor  *)
(* built: its list of codes and its name; a code is its sequence of        *)
(* characters.                                                             *)
(***************************************************************************)
\* the characters re.sub(r"[\s/\-_]+", "", ...) removes
IsSeparator(c) == IsSpace(c) \/ c \in {"/", "-", "_"}

RECURSIVE DropSeparators(_)
DropSeparators(code) ==
    IF code = <<>> THEN <<>>
    ELSE IF IsSeparator(Head(code)) THEN DropSeparators(Tail(code))
    ELSE <<Head(code)>> \o DropSeparators(Tail(code))

_normalize_code(code) == DropSeparators(Upper(Strip(code)))

Product(codes, name) == [codes |-> codes, name |-> name]

\* [_normalize_code(c) for c in p.get("codes", [])], as a set
NormCodes(p) == {_normalize_code(p.codes[i]) : i \in 1..Len(p.codes)}

\* sum(1 for v in p.values() if v)
FilledFields(p) ==
    (IF p.codes # <<>> THEN 1 ELSE 0) + (IF p.name # <<>> THEN 1 ELSE 0)

\* the entries of result that share a code with the product
Matching(kept, norm_codes) ==
    {i \in 1..Len(kept) : NormCodes(kept[i]) \cap norm_codes # {}}

\* the duplicate branch: the first matching entry is replaced if the product
\* has more fields filled
Replaced(kept, p, matching) ==
    IF matching = {} THEN kept
    ELSE IF FilledFields(p) > FilledFields(kept[SetMin(matching)])
    THEN [kept EXCEPT ![SetMin(matching)] = p]
    ELSE kept

\* one pass of the loop over products
DedupStep(st, p) ==
    IF NormCodes(p) \cap st.seen_codes # {}
    THEN [st EXCEPT !.result = Replaced(st.result, p, Matching(st.result, NormCodes(p)))]
    ELSE [result |-> Append(st.result, p),
          seen_codes |-> st.seen_codes \cup NormCodes(p)]

RECURSIVE DedupLoop(_, _)
DedupLoop(st, products) ==
    IF products = <<>> THEN st.result
    ELSE DedupLoop(DedupStep(st, Head(products)), Tail(products))

_dedup(products) == DedupLoop([result |-> <<>>, seen_codes |-> {}], products)

(***************************************************************************)
(* The de-duplication specification                                        *)
(***************************************************************************)
\* the most products in a list
MaxProducts == 3

CodeA1 == <<"A", "-", "1">>

CodeA1Lower == <<"a", "1">>

CodeB2 == <<"B", "2">>

CodeB2Spaced == <<" ", "b", " ", "2">>

SampleProducts ==
    { Product(<<CodeA1>>, <<>>), Product(<<CodeB2>>, <<>>),
      Product(<<CodeA1Lower>>, <<"x">>), Product(<<CodeA1Lower, CodeB2Spaced>>, <<"x">>),
      Product(<<CodeB2, CodeA1>>, <<>>), Product(<<>>, <<"y">>) }

DedupInit ==
    /\ _working_model = NoModel
    /\ open_docs = 0
    /\ pc = "dedup"
    /\ call = Idle
    /\ http = NoHttp
    /\ strat = NoStrat
    /\ reply = NoReply
    /\ result = NoResult
    /\ loc_page = VectorPage(<<>>, <<>>)
    /\ loc_rects = <<>>
    /\ \E products \in SeqsUpTo(SampleProducts, MaxProducts) :
           pure = [name |-> "_dedup", arg |-> products, ret |-> <<>>]
    /\ prices = NoPrices

Dedup ==
    /\ pc = "dedup"
    /\ pure' = [pure EXCEPT !.ret = _dedup(pure.arg)]
    /\ pc' = "deduped"
    /\ UNCHANGED <<_working_model, open_docs, call, http, strat, reply, result,
                   loc_page, loc_rects, prices>>

DedupNext == Dedup

SpecDedup == DedupInit /\ [][DedupNext]_vars

(***************************************************************************)
(* Properties of SpecDedup                                                 *)
(***************************************************************************)
Deduped == pc = "deduped"

\* C27: after _dedup no two products of the result share a code once codes
\* are normalised (upper-cased, whitespace and the separators / - _
\* removed), for every input list and every order of its products.
C27_NoSharedCodeAfterDedup ==
    Deduped =>
        \A i \in 1..Len(pure.ret) : \A j \in 1..Len(pure.ret) :
            i # j => NormCodes(pure.ret[i]) \cap NormCodes(pure.ret[j]) = {}

Candidates == {CANDIDATES[i] : i \in 1..Len(CANDIDATES)}

\* the cached model is None or a candidate whose call has returned without
\* error before
CachedHasWorked ==
    _working_model = NoModel
        \/ (_working_model \in Candidates /\ _working_model \in pure.ret.ok)

\* the cache changes only when a _call of the candidate loop returns without
\* error, and then to the model of that call; it never goes back to None
SetOnSuccessOnly ==
    _working_model' # _working_model =>
        /\ http.phase = "cand"
        /\ _working_model' = CANDIDATES[http.cand]
        /\ pure'.ret.last[1].model = _working_model'
        /\ pure'.ret.last[1].ret.err = ""

\* a _call_best that began with a cached model calls that model first
CachedTriedFirst ==
    (pure.ret.cached # NoModel /\ pure.ret.tried # <<>>)
        => pure.ret.tried[1].model = pure.ret.cached

\* a _call_best has returned after its cached model failed
CachedFailed ==
    /\ pc = "best-idle" /\ pure.ret.cached # NoModel
    /\ pure.ret.tried # <<>> /\ pure.ret.tried[1].err # ""

\* the candidate loop called the cached model again
CachedTriedAgain ==
    \E k \in 2..Len(pure.ret.tried) : pure.ret.tried[k].model = pure.ret.cached

\* the candidate loop ended at an earlier candidate that returned without
\* error
EarlierCandidateWorked ==
    \E k \in 2..Len(pure.ret.tried) :
        /\ pure.ret.tried[k].err = ""
        /\ \E i \in 1..Len(CANDIDATES), j \in 1..Len(CANDIDATES) :
               /\ i < j /\ CANDIDATES[i] = pure.ret.tried[k].model
               /\ CANDIDATES[j] = pure.ret.cached

\* C28 as stated: after any sequence of _call_best calls the cached model is
\* None or a member of CANDIDATES whose call returned without error earlier;
\* it is set only on such a success and never cleared, so a cached model
\* that later fails is still tried first on every following call and then a
\* second time by the candidate loop of the same call.
C28_CachedModelKept ==
    /\ [](CachedHasWorked /\ CachedTriedFirst /\ (CachedFailed => CachedTriedAgain))
    /\ [][SetOnSuccessOnly]_vars

\* C28, amended: the candidate loop tries the failed cached model a second
\* time unless a candidate before it in CANDIDATES returns without error
\* first.
C28_CachedModelKeptAmended ==
    /\ [](/\ CachedHasWorked /\ CachedTriedFirst
          /\ (CachedFailed => (CachedTriedAgain \/ EarlierCandidateWorked)))
    /\ [][SetOnSuccessOnly]_vars

\* the second _call_best began with a cached model; the model failed, was
\* called again by the candidate loop and failed again, and is still cached
C28_Witness ==
    /\ CachedFailed /\ pure.ret.n = 2
    /\ pure.ret.tried[2].model = pure.ret.cached
    /\ pure.ret.tried[2].err # ""
    /\ _working_model = pure.ret.cached

\* the text of span i with its first match m replaced by the converted price
FirstMatchConverted(text, m, cur) ==
    SubSeq(text, 1, m.start - 1)
        \o cur.to \o <<" ">>
        \o FormatPrice(Times(MatchedValue(text, <<m>>)[1], cur.mult))
        \o SubSeq(text, m.stop, Len(text))

\* what is inserted for a span is its text with the first match converted
\* and all that follows the match as it was
OnlyFirstConverted(page, i, text, found) ==
    \A ins \in InsertedFor(page, i) :
        found # <<>> /\ ins.text = FirstMatchConverted(text, found[1], prices.cur)

\* C29: convert_prices rewrites at most one price token per text span: only
\* the first pattern match of a span is converted, and the further price
\* tokens of the span are inserted again with their value and marker as
\* they were.
C29_FirstMatchOnly ==
    Converting =>
        \A page \in 1..Len(prices.doc) : \A i \in SpansOf(page) :
            /\ Cardinality({e \in EventsOn("insert", page) : prices.log[e].span = i}) <= 1
            /\ OnlyFirstConverted(page, i, TextOf(page, i),
                                  Search(TextOf(page, i), prices.cur))

\* a finished call on a page with the span "€ 20 € 30": "$ 40.00€ 30" was
\* inserted for it
C29_Witness ==
    /\ Saved /\ EuroToDollarTwice
    /\ \E page \in 1..Len(prices.doc) : \E i \in SpansOf(page) :
           /\ prices.doc[page][i] = TwoEuros
           /\ \E ins \in InsertedFor(page, i) :
                  ins.text = <<"$", " ", "4", "0", ".", "0", "0", "€", " ", "3", "0">>

(***************************************************************************)
(* Properties of SpecZone: the position test                               *)
(***************************************************************************)
\* 0.25 * px_h < best_y < 0.75 * px_h
PositionOk(h, best_y) == 25 * h < 100 * best_y /\ 100 * best_y < 75 * h

\* every pixel of the page is white
UniformWhite(full) ==
    \A j \in 0..(ImgH(full) - 1), i \in 0..(ImgW(full) - 1) : Px(full, i, j) = WHITE

\* the top of the scan band, int(h * 0.30), and the centre of its strip
FirstStripCentre(h) == (h * 30) \div 100 + 4

\* C30: on a page taller than 60 px the position test of the zone fallback
\* never fails: the split position _find_split_y returns lies strictly
\* between 25 % and 75 % of the page height, so the two-section decision
\* follows the peak brightness alone; and as the first of equally bright
\* strips wins, a uniformly white page is split into two sections at the top
\* of the scan band (about 30 % of the height).
C30_PositionTestNeverFails ==
    (ZoneCutDone /\ ImgH(pure.arg) > 60) =>
        /\ PositionOk(ImgH(pure.arg), pure.ret.split.y)
        /\ (Len(pure.ret.regions) = 2
                <=> pure.ret.split.num > NEAR_WHITE * StripDen(pure.arg))
        /\ UniformWhite(pure.arg)
               => TwoSections(pure.arg, pure.ret.regions,
                              FirstStripCentre(ImgH(pure.arg)))

\* a white page of 124 rows, cut in two at row 41
C30_Witness ==
    /\ ZoneCutDone
    /\ pure.arg = Image("blank", 0, 0, ZonePageW, 124)
    /\ UniformWhite(pure.arg)
    /\ pure.ret.split.y = 41
    /\ TwoSections(pure.arg, pure.ret.regions, 41)

====
